---- MODULE Spec2Model ----
(***************************************************************************)
(* FoodAtHome: the ingredient-normalization and recipe-matching pipeline.  *)
(*                                                                         *)
(* Strings are TLA+ strings, read character by character with SubSeq, so   *)
(* that lower-casing, trimming, punctuation stripping and substring tests  *)
(* are computed the way the JavaScript code computes them.                 *)
(***************************************************************************)
EXTENDS Integers, Sequences, FiniteSets, TLC

VARIABLES
    fn,                 \* pure-function runs: the function applied, "none" before the call
    args,               \* pure-function runs: the arguments of the call
    ret,                \* pure-function runs: the value returned
    user,               \* RecipeDiscovery: TRUE when useAuth() yields a signed-in user
    userIngredients,    \* RecipeDiscovery: useState userIngredients
    suggestedRecipes,   \* RecipeDiscovery: useState suggestedRecipes
    savedStore,         \* the saved-recipe collection of the user (FirestoreService)
    ingredients,        \* generateRecipes / loadSavedRecipes: the `ingredients` argument in flight
    recipes,            \* generateRecipes: data.recipes of the last backend response
    pc,                 \* RecipeDiscovery: position of the generateRecipes call
    confirmedIngredients, \* RecipeDiscovery: useState confirmedIngredients
    possibleIngredients,  \* RecipeDiscovery: useState possibleIngredients
    showConfirmation,   \* RecipeDiscovery: useState showConfirmation
    rejected,           \* the ingredients rejected since the last analysis or page load
    loadedRecipes,      \* loadSavedRecipes: what getUserRecipes returned last
    request,            \* Netlify function: the event (endpoint, httpMethod, body) and the API key
    hpc,                \* Netlify function: position of the handler
    imageIndex,         \* analyze-ingredients: images of imageUrls.slice(0, 5) already visited
    allIngredients,     \* analyze-ingredients: the Set allIngredients, in insertion order
    outcomes,           \* what the network answered for each visited image
    fetched,            \* image URLs fetched so far
    providerCalls,      \* calls made to api.anthropic.com so far
    response,           \* Netlify function: the value returned by the handler
    uploadedImages,     \* ImageUpload: useState uploadedImages (image URLs)
    storedImages,       \* the user_images records of the user (image URLs)
    uploads,            \* ImageUpload: handleFileSelect calls awaiting their uploads
    nextImage,          \* the next file selected gets this number in its URL
    selections,         \* how many selections and drops have been made
    removals,           \* how many images have been removed
    usage,              \* the user's tier, the recipe_generation records of the last
                        \* 7 days, and the generation requests sent to the backend
    generateCalls       \* where each generateRecipes call of the user stands

vars == <<fn, args, ret, user, userIngredients, suggestedRecipes, savedStore,
          ingredients, recipes, pc, confirmedIngredients, possibleIngredients,
          showConfirmation, rejected, loadedRecipes, request, hpc, imageIndex, allIngredients,
          outcomes, fetched, providerCalls, response, uploadedImages, storedImages,
          uploads, nextImage, selections, removals, usage, generateCalls>>

pureVars == <<fn, args, ret>>
confirmationVars == <<confirmedIngredients, possibleIngredients, showConfirmation, rejected>>
discoveryVars == <<user, userIngredients, suggestedRecipes, savedStore, ingredients, recipes, pc,
                   confirmationVars, loadedRecipes>>
handlerVars == <<request, hpc, imageIndex, allIngredients, outcomes, fetched,
                 providerCalls, response>>

uploadVars == <<uploadedImages, storedImages, uploads, nextImage, selections,
               removals>>

usageVars == <<usage, generateCalls>>

\* everything outside one component
nonPureVars == <<discoveryVars, handlerVars, uploadVars, usageVars>>
nonDiscoveryVars == <<pureVars, handlerVars, uploadVars, usageVars>>
nonHandlerVars == <<pureVars, discoveryVars, uploadVars, usageVars>>
nonUploadVars == <<pureVars, discoveryVars, handlerVars, usageVars>>
nonUsageVars == <<pureVars, discoveryVars, handlerVars, uploadVars>>

(***************************************************************************)
(* Bounds of the model.                                                    *)
(***************************************************************************)
MaxRecipeIngredients == 3   \* longest recipe ingredient list drawn for scoreMissing
MaxAvailable == 2           \* longest available list drawn for scoreMissing
MaxPantry == 4              \* longest pantry of an acceptance run
MaxPantrySize == 60         \* largest pantry size drawn for getAdaptiveThreshold
MaxCandidates == 3          \* most recipes in one backend response
MaxIngredients == 3         \* longest list drawn for deduplicateIngredients
MaxGenerateCalls == 3       \* generateRecipes calls of one user in one behaviour
MaxPreferenceFragments == 3 \* fragments of a dietary_preferences string
MaxBatch == 11              \* most files in one selection or drop
MaxSelections == 2          \* most selections and drops in one behaviour
MaxRemovals == 1            \* most removals in one behaviour
MaxImages == 6              \* most image URLs in one analysis request
MaxRawRecipes == 2          \* most entries in the recipes array of a generation response
MaxItems == 1               \* most entries in one confidence array of a response
MaxValidatorFragments == 2  \* most fragments concatenated into a validator token
MaxNormalizerFragments == 3 \* most fragments concatenated into a normalizer token

(***************************************************************************)
(* JavaScript string primitives.                                           *)
(***************************************************************************)
UpperLetters == "ABCDEFGHIJKLMNOPQRSTUVWXYZ"
LowerLetters == "abcdefghijklmnopqrstuvwxyz"
Digits == "0123456789"

CharAt(s, i) == SubSeq(s, i, i)

IsIn(c, alphabet) == \E i \in 1..Len(alphabet) : CharAt(alphabet, i) = c

CharsOf(alphabet) == {CharAt(alphabet, i) : i \in 1..Len(alphabet)}

UpperSet == CharsOf(UpperLetters)

UpperToLower ==
    [c \in UpperSet |->
        CharAt(LowerLetters, CHOOSE i \in 1..Len(UpperLetters) : CharAt(UpperLetters, i) = c)]

LowerChar(c) == IF c \in UpperSet THEN UpperToLower[c] ELSE c

\* the characters lo..hi of s, lower-cased (halving keeps the recursion shallow)
RECURSIVE lowerRange(_, _, _)
lowerRange(s, lo, hi) ==
    IF lo > hi THEN ""
    ELSE IF lo = hi THEN LowerChar(CharAt(s, lo))
    ELSE LET mid == (lo + hi) \div 2
         IN  lowerRange(s, lo, mid) \o lowerRange(s, mid + 1, hi)

toLowerCase(s) == lowerRange(s, 1, Len(s))

\* String.prototype.includes
includes(s, t) ==
    \E i \in 0..(Len(s) - Len(t)) : SubSeq(s, i + 1, i + Len(t)) = t

Range(seq) == {seq[i] : i \in 1..Len(seq)}

RECURSIVE BSeq(_, _)
BSeq(S, n) ==
    IF n = 0 THEN {<<>>}
    ELSE LET shorter == BSeq(S, n - 1)
         IN  shorter \cup {Append(q, x) : q \in {p \in shorter : Len(p) = n - 1}, x \in S}

(***************************************************************************)
(* Recipe Matcher (RecipeDiscovery.tsx).                                   *)
(***************************************************************************)
\* One-directional variant: only `available includes ingredient`.
convertOneWay(recipe, availableIngredients) ==
    LET isMissing(ingredient) ==
            ~\E k \in 1..Len(availableIngredients) :
                includes(toLowerCase(availableIngredients[k]), toLowerCase(ingredient))
        missing == SelectSeq(recipe.ingredients, isMissing)
    IN  [id |-> recipe.id, ingredients |-> recipe.ingredients,
         missing_ingredients |-> missing, missing_count |-> Len(missing),
         is_saved |-> FALSE]

convertRecipeToWithMissing(recipe, availableIngredients) ==
    LET isMissing(ingredient) ==
            ~\E k \in 1..Len(availableIngredients) :
                \/ includes(toLowerCase(availableIngredients[k]), toLowerCase(ingredient))
                \/ includes(toLowerCase(ingredient), toLowerCase(availableIngredients[k]))
        missing == SelectSeq(recipe.ingredients, isMissing)
    IN  [id |-> recipe.id, ingredients |-> recipe.ingredients,
         missing_ingredients |-> missing, missing_count |-> Len(missing),
         is_saved |-> FALSE]

\* Variant without the small-pantry branch.
thresholdFlat(pantrySize) == 2

getAdaptiveThreshold(pantrySize) ==
    IF pantrySize <= 3 THEN (IF 3 < pantrySize + 2 THEN 3 ELSE pantrySize + 2)
    ELSE IF pantrySize <= 6 THEN 2
    ELSE 2

(***************************************************************************)
(* Pure-function runs of the Recipe Matcher.                               *)
(***************************************************************************)
RecipePhrases == {"", "egg", "red pepper", "Salt"}
AvailablePhrases == {"Eggs", "Pepper", "salt"}

ScoreInputs ==
    [kind : {"score"},
     recipeIngredients : BSeq(RecipePhrases, MaxRecipeIngredients),
     available : BSeq(AvailablePhrases, MaxAvailable)]

ThresholdInputs == [kind : {"threshold"}, pantrySize : 0..MaxPantrySize]

idleDiscovery ==
    /\ user = FALSE
    /\ userIngredients = <<>>
    /\ suggestedRecipes = <<>>
    /\ savedStore = <<>>
    /\ ingredients = <<>>
    /\ recipes = <<>>
    /\ pc = "idle"
    /\ confirmedIngredients = <<>>
    /\ possibleIngredients = <<>>
    /\ showConfirmation = FALSE
    /\ rejected = {}
    /\ loadedRecipes = <<>>

idlePure ==
    /\ fn = "none"
    /\ args = <<>>
    /\ ret = <<>>

\* no response returned yet
NoResponse ==
    [statusCode |-> 0, headers |-> {}, empty |-> TRUE, error |-> "",
     ingredients |-> <<>>, recipes |-> <<>>]

idleUsage ==
    /\ usage = [tier |-> "", records |-> 0, sent |-> 0]
    /\ generateCalls = [c \in 1..MaxGenerateCalls |-> "idle"]

idleUpload ==
    /\ uploadedImages = <<>>
    /\ storedImages = {}
    /\ uploads = <<>>
    /\ nextImage = 1
    /\ selections = 0
    /\ removals = 0

idleHandler ==
    /\ request = <<>>
    /\ hpc = "idle"
    /\ imageIndex = 0
    /\ allIngredients = <<>>
    /\ outcomes = <<>>
    /\ fetched = <<>>
    /\ providerCalls = 0
    /\ response = NoResponse

InitMatcher ==
    /\ fn = "none"
    /\ args \in ScoreInputs \cup ThresholdInputs
    /\ ret = <<>>
    /\ idleDiscovery
    /\ idleHandler
    /\ idleUpload
    /\ idleUsage

ScoreMissing ==
    /\ fn = "none"
    /\ args.kind = "score"
    /\ fn' = "convertRecipeToWithMissing"
    /\ ret' = convertRecipeToWithMissing([id |-> 1, ingredients |-> args.recipeIngredients],
                                         args.available)
    /\ UNCHANGED <<args, nonPureVars>>

AdaptiveThreshold ==
    /\ fn = "none"
    /\ args.kind = "threshold"
    /\ fn' = "getAdaptiveThreshold"
    /\ ret' = getAdaptiveThreshold(args.pantrySize)
    /\ UNCHANGED <<args, nonPureVars>>

NextMatcher == ScoreMissing \/ AdaptiveThreshold

SpecMatcher == InitMatcher /\ [][NextMatcher]_vars

\* The phrase r is matched by some available item, as the specification words it.
FuzzyAvailable(r, available) ==
    \E a \in Range(available) :
        \/ includes(toLowerCase(a), toLowerCase(r))
        \/ includes(toLowerCase(r), toLowerCase(a))

\* C1: a phrase of the recipe is in missing_ingredients iff no available item
\* contains it or is contained in it (case-insensitively); missing_ingredients
\* is the recipe's list restricted to the failing positions, in the same order,
\* and missing_count is its length.
C1_ScoreMissing ==
    fn = "convertRecipeToWithMissing" =>
        LET R == args.recipeIngredients
            m == ret.missing_ingredients
            K == {i \in 1..Len(R) : ~FuzzyAvailable(R[i], args.available)}
        IN  /\ \A r \in Range(R) : (r \in Range(m)) <=> ~FuzzyAvailable(r, args.available)
            /\ Len(m) = Cardinality(K)
            /\ \A i \in K : m[Cardinality({k \in K : k <= i})] = R[i]
            /\ ret.missing_count = Len(m)

\* A recipe with a phrase that only the reverse containment matches, one
\* matched phrase and one missing phrase.
C1_Witness ==
    /\ fn = "convertRecipeToWithMissing"
    /\ args.recipeIngredients = <<"egg", "red pepper", "Salt">>
    /\ args.available = <<"Pepper">>
    /\ ret.missing_ingredients = <<"egg", "Salt">>

accepted(recipe, available) ==
    convertRecipeToWithMissing(recipe, available).missing_count
        <= getAdaptiveThreshold(Len(available))

PantryPhrases == {"eggs", "milk", "salt"}

AcceptInputs ==
    [kind : {"accept"},
     recipeIngredients : {<<"flour", "sugar", "yeast">>, <<"eggs", "flour", "milk", "rice">>},
     available : BSeq(PantryPhrases, MaxPantry),
     added : PantryPhrases \cup {"rice"}]

InitAcceptance ==
    /\ fn = "none"
    /\ args \in AcceptInputs
    /\ ret = <<>>
    /\ idleDiscovery
    /\ idleHandler
    /\ idleUpload
    /\ idleUsage

\* the filter of generateRecipes with a pantry and with the pantry plus one item
Accepted ==
    /\ fn = "none"
    /\ args.kind = "accept"
    /\ fn' = "accepted"
    /\ ret' = LET recipe == [id |-> 1, ingredients |-> args.recipeIngredients]
              IN  [before |-> accepted(recipe, args.available),
                   after |-> accepted(recipe, Append(args.available, args.added))]
    /\ UNCHANGED <<args, nonPureVars>>

NextAcceptance == Accepted

SpecAcceptance == InitAcceptance /\ [][NextAcceptance]_vars

\* C26: a recipe accepted with a pantry is accepted with every larger pantry.
C26_MonotoneAcceptance ==
    fn = "accepted" => (ret.before => ret.after)

(***************************************************************************)
(* More JavaScript string primitives: trim and split.                      *)
(***************************************************************************)
Whitespace == " "

RECURSIVE trimStart(_)
trimStart(s) ==
    IF s # "" /\ IsIn(CharAt(s, 1), Whitespace) THEN trimStart(SubSeq(s, 2, Len(s))) ELSE s

RECURSIVE trimEnd(_)
trimEnd(s) ==
    IF s # "" /\ IsIn(CharAt(s, Len(s)), Whitespace)
    THEN trimEnd(SubSeq(s, 1, Len(s) - 1))
    ELSE s

trim(s) == trimEnd(trimStart(s))

\* String.prototype.split with a one-character separator: "" splits to <<"">>.
\* The k-th piece lies between the (k-1)-th and the k-th separator.
split(s, sep) ==
    LET at == {i \in 1..Len(s) : CharAt(s, i) = sep}
        nth(k) == IF k = 0 THEN 0
                  ELSE IF k > Cardinality(at) THEN Len(s) + 1
                  ELSE CHOOSE p \in at : Cardinality({q \in at : q <= p}) = k
    IN  [k \in 1..(Cardinality(at) + 1) |-> SubSeq(s, nth(k - 1) + 1, nth(k) - 1)]

Map(seq, Op(_)) == [i \in 1..Len(seq) |-> Op(seq[i])]

\* arr.filter((item, index, arr) => arr.indexOf(item) === index)
firstOccurrences(arr) ==
    LET keep == {i \in 1..Len(arr) : \A j \in 1..(i - 1) : arr[j] # arr[i]}
        RECURSIVE pick(_)
        pick(i) == IF i > Len(arr) THEN <<>>
                   ELSE (IF i \in keep THEN <<arr[i]>> ELSE <<>>) \o pick(i + 1)
    IN  pick(1)

(***************************************************************************)
(* RecipeDiscovery: saveEditedIngredients, generateRecipes and             *)
(* loadSavedRecipes, cut at their awaits.                                  *)
(***************************************************************************)
nonEmpty(item) == Len(item) > 0

lowerTrim(item) == toLowerCase(trim(item))

\* RecipeDiscovery.tsx 135-139
parseEditedIngredients(editableIngredients) ==
    firstOccurrences(SelectSeq(Map(split(editableIngredients, ","), lowerTrim), nonEmpty))

\* Array.prototype.sort with (a, b) => a.missing_count - b.missing_count is a
\* stable sort: an element goes after every element whose count is not larger.
RECURSIVE insertByMissing(_, _)
insertByMissing(sorted, r) ==
    IF sorted = <<>> THEN <<r>>
    ELSE IF Head(sorted).missing_count <= r.missing_count
         THEN <<Head(sorted)>> \o insertByMissing(Tail(sorted), r)
         ELSE <<r>> \o sorted

RECURSIVE sortByMissing(_)
sortByMissing(seq) ==
    IF seq = <<>> THEN <<>>
    ELSE insertByMissing(sortByMissing(SubSeq(seq, 1, Len(seq) - 1)), seq[Len(seq)])

\* Variant that filters and leaves the generation order.
rankUnsorted(candidates, available) ==
    LET maxMissing == getAdaptiveThreshold(Len(available))
        convert(recipe) == convertRecipeToWithMissing(recipe, available)
        inRange(recipe) == recipe.missing_count <= maxMissing
    IN  SelectSeq(Map(candidates, convert), inRange)

\* RecipeDiscovery.tsx 283-289
rankCandidates(candidates, available) ==
    LET maxMissing == getAdaptiveThreshold(Len(available))
        convert(recipe) == convertRecipeToWithMissing(recipe, available)
        inRange(recipe) == recipe.missing_count <= maxMissing
    IN  sortByMissing(SelectSeq(Map(candidates, convert), inRange))

\* Variant that filters and leaves the stored order.
getRecipesUnsorted(allRecipes, availableIngredients, maxMissingIngredients) ==
    LET convert(recipe) == convertRecipeToWithMissing(recipe, availableIngredients)
        inRange(recipe) == recipe.missing_count <= maxMissingIngredients
        plain(recipe) == [id |-> recipe.id, ingredients |-> recipe.ingredients]
    IN  Map(SelectSeq(Map(allRecipes, convert), inRange), plain)

\* SavedRecipesService.getRecipesByIngredients
getRecipesByIngredients(allRecipes, availableIngredients, maxMissingIngredients) ==
    LET convert(recipe) == convertRecipeToWithMissing(recipe, availableIngredients)
        inRange(recipe) == recipe.missing_count <= maxMissingIngredients
        plain(recipe) == [id |-> recipe.id, ingredients |-> recipe.ingredients]
    IN  Map(sortByMissing(SelectSeq(Map(allRecipes, convert), inRange)), plain)

\* RecipeDiscovery.tsx 315-321
savedWithMissing(allRecipes, available) ==
    LET saved == getRecipesByIngredients(allRecipes, available,
                                         getAdaptiveThreshold(Len(available)))
        convert(recipe) ==
            [convertRecipeToWithMissing(recipe, available) EXCEPT !.is_saved = TRUE]
    IN  Map(saved, convert)

EditTexts == {" , ", "Eggs, eggs ,milk", "eggs,milk,bread,butter"}

RecipeBook ==
    {<<"eggs">>,
     <<"eggs", "salt", "pepper">>,
     <<"eggs", "milk", "flour", "sugar", "yeast">>}

SavedStores ==
    {<<>>,
     <<[id |-> 11, ingredients |-> <<"milk">>]>>,
     <<[id |-> 12, ingredients |-> <<"eggs", "flour", "sugar", "yeast">>],
       [id |-> 11, ingredients |-> <<"milk">>]>>}

numbered(lists) == [i \in 1..Len(lists) |-> [id |-> i, ingredients |-> lists[i]]]

InitDiscovery ==
    /\ idlePure
    /\ idleHandler
    /\ idleUpload
    /\ idleUsage
    /\ user \in BOOLEAN
    /\ userIngredients = <<>>
    /\ suggestedRecipes = <<>>
    /\ savedStore \in (IF user THEN SavedStores ELSE {<<>>})
    /\ ingredients = <<>>
    /\ recipes = <<>>
    /\ pc = "idle"
    /\ confirmedIngredients = <<>>
    /\ possibleIngredients = <<>>
    /\ showConfirmation = FALSE
    /\ rejected = {}
    /\ loadedRecipes = <<>>

\* saveEditedIngredients up to the fetch of generateRecipes (lines 134-272).
SaveEditedIngredients ==
    /\ pc = "idle"
    /\ \E editableIngredients \in EditTexts, canGenerate \in BOOLEAN :
        LET newIngredients == parseEditedIngredients(editableIngredients)
        IN  /\ userIngredients' = newIngredients
            /\ ingredients' = newIngredients
            /\ pc' = IF Len(newIngredients) = 0 THEN "loadSaved"
                     ELSE IF user /\ ~canGenerate THEN "idle"
                     ELSE "fetch"
            /\ rejected' = rejected \ Range(newIngredients)
    /\ recipes' = <<>>
    /\ UNCHANGED <<nonDiscoveryVars, user, suggestedRecipes, savedStore,
                   confirmedIngredients, possibleIngredients, showConfirmation,
                   loadedRecipes>>

\* generateRecipes from the backend's answer to setSuggestedRecipes (lines
\* 274-295), the answer being a failure or one of the given recipe lists.
fetchResponse(responses) ==
    /\ pc = "fetch"
    /\ \E ok \in BOOLEAN :
        IF ok
        THEN \E lists \in responses :
                /\ recipes' = numbered(lists)
                /\ suggestedRecipes' = rankCandidates(numbered(lists), ingredients)
                /\ pc' = "generated"
        ELSE /\ pc' = "loadSaved"
             /\ UNCHANGED <<recipes, suggestedRecipes>>
    /\ UNCHANGED <<nonDiscoveryVars, user, userIngredients, savedStore, ingredients,
                   confirmationVars, loadedRecipes>>

FetchResponse == fetchResponse(BSeq(RecipeBook, MaxCandidates))

\* generateRecipes lines 298-300.
AfterGenerated ==
    /\ pc = "generated"
    /\ pc' = IF Len(suggestedRecipes) = 0 THEN "loadSaved" ELSE "idle"
    /\ UNCHANGED <<nonDiscoveryVars, user, userIngredients, suggestedRecipes, savedStore,
                   ingredients, recipes, confirmationVars, loadedRecipes>>

\* loadSavedRecipes (lines 309-333); getUserRecipes yields [] when the store fails.
LoadSavedRecipes ==
    /\ pc = "loadSaved"
    /\ IF ~user
       THEN UNCHANGED <<suggestedRecipes, loadedRecipes>>
       ELSE \E storeOk \in BOOLEAN :
                /\ loadedRecipes' = (IF storeOk THEN savedStore ELSE <<>>)
                /\ suggestedRecipes' = savedWithMissing(loadedRecipes', ingredients)
    /\ pc' = "idle"
    /\ UNCHANGED <<nonDiscoveryVars, user, userIngredients, savedStore, ingredients, recipes,
                   confirmationVars>>

\* what ClaudeVisionService.analyzeIngredients resolves to: the sorted list of
\* the backend, which always holds the assumed staples
AnalysisResults ==
    {<<"olive oil", "pepper", "salt", "water">>,
     <<"eggs", "olive oil", "pepper", "salt", "water">>}

\* Math.ceil(n * 0.7), in tenths
ceil70(n) == (7 * n + 9) \div 10

\* where generateRecipes(list) stands at its first await of the backend
\* (lines 233-272): the saved-recipe path, the usage-limit return, or the fetch
generateRecipesUntilFetch(list, canGenerate) ==
    IF Len(list) = 0 THEN "loadSaved"
    ELSE IF user /\ ~canGenerate THEN "idle"
    ELSE "fetch"

\* analyzeIngredients (lines 45-67) followed by setUserIngredients
AnalysisApplied(result) ==
    /\ userIngredients' = result
    /\ IF Len(result) > 0
       THEN /\ confirmedIngredients' = SubSeq(result, 1, ceil70(Len(result)))
            /\ possibleIngredients' = SubSeq(result, ceil70(Len(result)) + 1, Len(result))
            /\ showConfirmation' = (ceil70(Len(result)) < Len(result))
            /\ rejected' = {}
       ELSE UNCHANGED confirmationVars

\* clearCacheAndReanalyze (lines 183-216) up to the fetch of generateRecipes;
\* getUserImages yields no image, some images, or throws.
ClearCacheAndReanalyze ==
    /\ pc = "idle"
    /\ user
    /\ recipes' = <<>>
    /\ suggestedRecipes' = <<>>
    /\ \E images \in {"none", "some", "throws"} :
        IF images = "some"
        THEN \E result \in AnalysisResults, canGenerate \in BOOLEAN :
                /\ AnalysisApplied(result)
                /\ ingredients' = result
                /\ pc' = generateRecipesUntilFetch(result, canGenerate)
        ELSE /\ userIngredients' = <<>>
             /\ UNCHANGED <<ingredients, pc, confirmationVars>>
    /\ UNCHANGED <<nonDiscoveryVars, user, savedStore, loadedRecipes>>

\* confirmIngredient (lines 161-168)
ConfirmIngredient ==
    /\ pc = "idle"
    /\ showConfirmation
    /\ \E k \in 1..Len(possibleIngredients) :
        LET ingredient == possibleIngredients[k]
        IN  /\ confirmedIngredients' = Append(confirmedIngredients, ingredient)
            /\ possibleIngredients' =
                  SelectSeq(possibleIngredients, LAMBDA item : item # ingredient)
            /\ userIngredients' = Append(userIngredients, ingredient)
    /\ UNCHANGED <<nonDiscoveryVars, user, suggestedRecipes, savedStore, ingredients, recipes,
                   pc, showConfirmation, rejected, loadedRecipes>>

\* rejectIngredient (lines 170-172)
RejectIngredient ==
    /\ pc = "idle"
    /\ showConfirmation
    /\ \E k \in 1..Len(possibleIngredients) :
        /\ possibleIngredients' =
              SelectSeq(possibleIngredients, LAMBDA item : item # possibleIngredients[k])
        /\ rejected' = rejected \cup {possibleIngredients[k]}
    /\ UNCHANGED <<nonDiscoveryVars, user, userIngredients, suggestedRecipes, savedStore,
                   ingredients, recipes, pc, confirmedIngredients, showConfirmation,
                   loadedRecipes>>

\* finishConfirmation (lines 174-181) up to the fetch of generateRecipes
FinishConfirmation ==
    /\ pc = "idle"
    /\ showConfirmation
    /\ showConfirmation' = FALSE
    /\ IF Len(confirmedIngredients) # Len(userIngredients)
       THEN \E canGenerate \in BOOLEAN :
                /\ ingredients' = userIngredients
                /\ recipes' = <<>>
                /\ pc' = generateRecipesUntilFetch(userIngredients, canGenerate)
       ELSE UNCHANGED <<ingredients, recipes, pc>>
    /\ UNCHANGED <<nonDiscoveryVars, user, userIngredients, suggestedRecipes, savedStore,
                   confirmedIngredients, possibleIngredients, rejected, loadedRecipes>>

\* A page load: the useState initializers restore userIngredients and
\* suggestedRecipes from localStorage (lines 22-31), which the effects of lines
\* 335-343 keep equal to the state; every other state starts afresh and calls
\* in flight are gone.  Then the mount effect (lines 356-417) runs up to the
\* fetch of generateRecipes.
Remount ==
    /\ recipes' = <<>>
    /\ rejected' = {}
    /\ IF ~user \/ (Len(userIngredients) > 0 /\ Len(suggestedRecipes) > 0)
       THEN /\ pc' = "idle"
            /\ ingredients' = <<>>
            /\ confirmedIngredients' = <<>>
            /\ possibleIngredients' = <<>>
            /\ showConfirmation' = FALSE
            /\ UNCHANGED <<userIngredients, suggestedRecipes, loadedRecipes>>
       ELSE \E images \in {"none", "some", "throws"}, canGenerate \in BOOLEAN :
              CASE images = "none" ->
                    /\ pc' = "idle"
                    /\ ingredients' = <<>>
                    /\ confirmedIngredients' = <<>>
                    /\ possibleIngredients' = <<>>
                    /\ showConfirmation' = FALSE
                    /\ UNCHANGED <<userIngredients, suggestedRecipes, loadedRecipes>>
                [] images = "some" /\ Len(userIngredients) = 0 ->
                    \E result \in AnalysisResults :
                        /\ userIngredients' = result
                        /\ confirmedIngredients' = SubSeq(result, 1, ceil70(Len(result)))
                        /\ possibleIngredients' =
                              SubSeq(result, ceil70(Len(result)) + 1, Len(result))
                        /\ showConfirmation' = (ceil70(Len(result)) < Len(result))
                        /\ ingredients' = result
                        /\ pc' = generateRecipesUntilFetch(result, canGenerate)
                        /\ UNCHANGED <<suggestedRecipes, loadedRecipes>>
                [] images = "some" /\ Len(userIngredients) > 0 ->
                    /\ ingredients' = userIngredients
                    /\ pc' = generateRecipesUntilFetch(userIngredients, canGenerate)
                    /\ confirmedIngredients' = <<>>
                    /\ possibleIngredients' = <<>>
                    /\ showConfirmation' = FALSE
                    /\ UNCHANGED <<userIngredients, suggestedRecipes, loadedRecipes>>
                [] images = "throws" ->
                    \* lines 399-408: loadSavedRecipes gets the userIngredients of
                    \* the render that started the effect
                    \E result \in AnalysisResults, storeOk \in BOOLEAN :
                        /\ IF Len(userIngredients) = 0
                           THEN /\ userIngredients' = result
                                /\ confirmedIngredients' =
                                      SubSeq(result, 1, ceil70(Len(result)))
                                /\ possibleIngredients' =
                                      SubSeq(result, ceil70(Len(result)) + 1, Len(result))
                                /\ showConfirmation' = (ceil70(Len(result)) < Len(result))
                           ELSE /\ confirmedIngredients' = <<>>
                                /\ possibleIngredients' = <<>>
                                /\ showConfirmation' = FALSE
                                /\ UNCHANGED userIngredients
                        /\ ingredients' = userIngredients
                        /\ loadedRecipes' = (IF storeOk THEN savedStore ELSE <<>>)
                        /\ suggestedRecipes' = savedWithMissing(loadedRecipes', userIngredients)
                        /\ pc' = "idle"
    /\ UNCHANGED <<nonDiscoveryVars, user, savedStore>>

\* the backend answers of a whole session
SessionResponses ==
    {<<>>,
     <<<<"eggs">>>>,
     <<<<"eggs", "milk", "flour", "sugar", "yeast">>, <<"eggs", "salt", "pepper">>>>}

SessionFetchResponse == fetchResponse(SessionResponses)

NextSession ==
    \/ SaveEditedIngredients
    \/ SessionFetchResponse
    \/ AfterGenerated
    \/ LoadSavedRecipes
    \/ ClearCacheAndReanalyze
    \/ ConfirmIngredient
    \/ RejectIngredient
    \/ FinishConfirmation
    \/ Remount

\* RecipeDiscovery with every handler that changes the ingredients or the recipes
SpecSession == InitDiscovery /\ [][NextSession]_vars

NextDiscovery == SaveEditedIngredients \/ FetchResponse \/ AfterGenerated \/ LoadSavedRecipes

SpecDiscovery == InitDiscovery /\ [][NextDiscovery]_vars

C4_AtMostTwoMissing ==
    \A i \in 1..Len(suggestedRecipes) : suggestedRecipes[i].missing_count <= 2

\* One step of RecipeDiscovery seen by C18.
C18_Step ==
    /\ (pc = "fetch" /\ pc' # "generated") => pc' = "loadSaved"
    /\ (pc = "generated" /\ suggestedRecipes = <<>>) => pc' = "loadSaved"
    /\ (pc = "loadSaved" /\ user) =>
        LET S == loadedRecipes'
            W == [i \in 1..Len(S) |->
                    [convertRecipeToWithMissing(S[i], userIngredients')
                        EXCEPT !.is_saved = TRUE]]
            T == getAdaptiveThreshold(Len(userIngredients'))
            K == {i \in 1..Len(S) : W[i].missing_count <= T}
            list == suggestedRecipes'
        IN  /\ pc' = "idle"
            /\ Len(list) = Cardinality(K)
            /\ \A i \in K : \E p \in 1..Len(list) : list[p] = W[i]
            /\ \A p \in 1..Len(list) : \A q \in p..Len(list) :
                  list[p].missing_count <= list[q].missing_count

C20_DerivedFromCurrent ==
    \A i \in 1..Len(suggestedRecipes) :
        LET r == suggestedRecipes[i]
            now == convertRecipeToWithMissing([id |-> r.id, ingredients |-> r.ingredients],
                                              userIngredients)
        IN  /\ r.missing_ingredients = now.missing_ingredients
            /\ r.missing_count = Len(now.missing_ingredients)

\* C24: userIngredients never holds a string twice.
C24_IngredientsAreSet ==
    \A i, j \in 1..Len(userIngredients) :
        userIngredients[i] = userIngredients[j] => i = j

\* a step that starts a generateRecipes call after a confirmation or an edit
C25_Step ==
    (\/ SaveEditedIngredients
     \/ FinishConfirmation /\ Len(confirmedIngredients) # Len(userIngredients))
    => rejected' \cap Range(ingredients') = {}

\* C25: no ingredient rejected in the confirmation step, and not added again
\* by editing, is in the list passed to a later generateRecipes call.
C25_RejectedNotUsed == [][C25_Step]_vars

(***************************************************************************)
(* Ingredient Validator and Normalizer (analyze-ingredients.js and         *)
(* claudeVision.ts).  A null, undefined or empty dietaryRestrictions is    *)
(* the empty string: the code only tests it for truthiness.                *)
(***************************************************************************)
LetterSet == CharsOf(UpperLetters) \cup CharsOf(LowerLetters)

\* \w of a JavaScript regular expression
WordSet == LetterSet \cup CharsOf(Digits) \cup {"_"}

\* /[a-zA-Z]/.test(item)
hasLetter(item) == \E i \in 1..Len(item) : CharAt(item, i) \in LetterSet

\* analyze-ingredients.js 80-87
blockedTerms ==
    {"fruit", "fruits", "vegetables", "veggies", "leafy greens", "condiments",
     "sauces", "dressings", "grains", "nuts", "herbs", "spices", "oils",
     "cereals", "legumes", "dairy", "produce", "meat", "seafood", "beverages",
     "drinks", "juice", "root vegetables", "oil", "seasonings", "cereal",
     "bowls", "baskets", "containers", "bottle", "jar", "package", "can", "box",
     "various", "some", "many", "different", "other", "items", "food", "ingredients"}

\* claudeVision.ts 680-700
blockedGenericTerms ==
    {"fruit", "fruits", "fresh produce", "vegetables", "veggies", "leafy greens",
     "condiments", "sauces", "dressings", "grains", "nuts", "herbs", "spices",
     "oils", "cereals", "legumes", "dairy", "produce", "meat", "seafood",
     "beverages", "drinks", "juice", "citrus fruits", "root vegetables",
     "oil", "seasonings", "cereal", "oatmeal", "granola",
     "bowls", "baskets", "containers", "bottle", "jar", "package", "can", "box", "bag",
     "plastic", "glass", "metal", "wood", "kitchen", "fridge", "refrigerator", "shelf",
     "various", "some", "many", "several", "different", "other", "items", "food",
     "ingredients", "products", "goods", "brand", "label", "see", "visible", "appears",
     "chocolate", "jam", "butter"}

veganBlocked ==
    {"milk", "cheese", "butter", "yogurt", "cream", "eggs", "honey", "meat", "chicken",
     "beef", "pork", "fish", "salmon", "tuna", "bacon"}

vegetarianBlocked ==
    {"meat", "chicken", "beef", "pork", "fish", "salmon", "tuna", "bacon", "ham", "turkey"}

glutenBlocked == {"bread", "pasta", "flour", "wheat", "barley", "rye", "soy sauce"}

\* blockedList.some(blocked => itemLower.includes(blocked))
someIncluded(itemLower, blockedList) == \E blocked \in blockedList : includes(itemLower, blocked)

\* Variant whose blocklist test is a substring test.
isValidSubstringBlock(item, dietaryRestrictions) ==
    LET itemLower == toLowerCase(trim(item))
    IN  /\ ~(Len(item) < 2 \/ ~hasLetter(item))
        /\ ~someIncluded(itemLower, blockedTerms)

\* Variant whose vegetarian test is not skipped for a vegan.
isValidNoElse(item, dietaryRestrictions) ==
    LET itemLower == toLowerCase(trim(item))
        restrictions == toLowerCase(dietaryRestrictions)
    IN  /\ ~(Len(item) < 2 \/ ~hasLetter(item))
        /\ itemLower \notin blockedTerms
        /\ ~(includes(restrictions, "vegan") /\ someIncluded(itemLower, veganBlocked))
        /\ ~(includes(restrictions, "vegetarian") /\ someIncluded(itemLower, vegetarianBlocked))
        /\ ~(includes(restrictions, "gluten-free") /\ someIncluded(itemLower, glutenBlocked))

\* analyze-ingredients.js 75-119
isValidIngredient(item, dietaryRestrictions) ==
    LET itemLower == toLowerCase(trim(item))
        restrictions == toLowerCase(dietaryRestrictions)
    IN  IF Len(item) < 2 \/ ~hasLetter(item) THEN FALSE
        ELSE IF itemLower \in blockedTerms THEN FALSE
        ELSE IF dietaryRestrictions = "" THEN TRUE
        ELSE IF /\ includes(restrictions, "vegan")
                /\ someIncluded(itemLower, veganBlocked) THEN FALSE
        ELSE IF /\ ~includes(restrictions, "vegan")
                /\ includes(restrictions, "vegetarian")
                /\ someIncluded(itemLower, vegetarianBlocked) THEN FALSE
        ELSE IF /\ includes(restrictions, "gluten-free")
                /\ someIncluded(itemLower, glutenBlocked) THEN FALSE
        ELSE TRUE

\* claudeVision.ts 670-710
ClaudeVisionService_isValidIngredient(item) ==
    LET itemLower == toLowerCase(trim(item))
    IN  IF Len(item) < 2 \/ ~hasLetter(item) THEN FALSE
        ELSE IF itemLower \in blockedGenericTerms THEN FALSE
        ELSE TRUE

\* .replace(/[^\w\s]/g, '')
RECURSIVE stripRange(_, _, _)
stripRange(s, lo, hi) ==
    IF lo > hi THEN ""
    ELSE IF lo = hi
         THEN (IF CharAt(s, lo) \in WordSet \/ IsIn(CharAt(s, lo), Whitespace)
               THEN CharAt(s, lo) ELSE "")
    ELSE LET mid == (lo + hi) \div 2
         IN  stripRange(s, lo, mid) \o stripRange(s, mid + 1, hi)

stripPunctuation(s) == stripRange(s, 1, Len(s))

\* .replace(/\s+/g, ' ')
\* a run of whitespace is replaced by one space, written at its first character
RECURSIVE collapseRange(_, _, _)
collapseRange(s, lo, hi) ==
    IF lo > hi THEN ""
    ELSE IF lo = hi
         THEN (IF ~IsIn(CharAt(s, lo), Whitespace) THEN CharAt(s, lo)
               ELSE IF lo > 1 /\ IsIn(CharAt(s, lo - 1), Whitespace) THEN ""
               ELSE " ")
    ELSE LET mid == (lo + hi) \div 2
         IN  collapseRange(s, lo, mid) \o collapseRange(s, mid + 1, hi)

collapseWhitespace(s) == collapseRange(s, 1, Len(s))

\* analyze-ingredients.js 46-63, in insertion order
normalizations ==
    <<<<"tomato", "tomatoes">>, <<"onion", "onions">>, <<"carrot", "carrots">>,
      <<"apple", "apples">>, <<"orange", "oranges">>, <<"lemon", "lemons">>,
      <<"lime", "limes">>, <<"potato", "potatoes">>, <<"yams", "yam">>,
      <<"vegetable oil", "olive oil">>, <<"cooking oil", "olive oil">>,
      <<"leafy greens", "lettuce">>, <<"salad greens", "lettuce">>,
      <<"bell pepper", "peppers">>, <<"green pepper", "peppers">>,
      <<"red pepper", "peppers">>,
      <<"cheddar cheese", "cheese">>, <<"mozzarella cheese", "cheese">>>>

\* the loop of analyze-ingredients.js 65-70: the first rule that matches wins
applyFirstRule(normalized, rules) ==
    LET hits == {k \in 1..Len(rules) :
                    normalized = rules[k][1] \/ includes(normalized, rules[k][1])}
    IN  IF hits = {} THEN normalized
        ELSE rules[CHOOSE k \in hits : \A j \in hits : k <= j][2]

\* analyze-ingredients.js 42-73
normalizeIngredient(item) ==
    applyFirstRule(collapseWhitespace(stripPunctuation(trim(toLowerCase(item)))),
                   normalizations)

(***************************************************************************)
(* Pure-function runs of the Validator and the Normalizer.                 *)
(***************************************************************************)
RECURSIVE Concats(_, _)
Concats(fragments, n) ==
    IF n = 0 THEN {""}
    ELSE LET shorter == Concats(fragments, n - 1)
         IN  shorter \cup {s \o f : s \in shorter, f \in fragments}

ValidatorFragments == {" ", "1", "A", "Oil", "ham", "Honey", "bread", "meat", "butter"}

Restrictions ==
    {"", "vegan", "Vegetarian", "vegan vegetarian", "gluten-free",
     "VEGAN, gluten-free", "vegetarian,Gluten-Free", "gluten free"}

NormalizerFragments == {" ", ".", "kale", "Lime", "s", "red pepper"}

ValidatorInputs ==
    [kind : {"valid"}, item : Concats(ValidatorFragments, MaxValidatorFragments),
     dietaryRestrictions : Restrictions]

ClientValidatorInputs ==
    [kind : {"validClient"}, item : Concats(ValidatorFragments, MaxValidatorFragments)]

NormalizerInputs ==
    [kind : {"normalize"}, item : Concats(NormalizerFragments, MaxNormalizerFragments)]

InitValidator ==
    /\ fn = "none"
    /\ args \in ValidatorInputs \cup ClientValidatorInputs \cup NormalizerInputs
    /\ ret = <<>>
    /\ idleDiscovery
    /\ idleHandler
    /\ idleUpload
    /\ idleUsage

IsValidIngredient ==
    /\ fn = "none"
    /\ args.kind = "valid"
    /\ fn' = "isValidIngredient"
    /\ ret' = isValidIngredient(args.item, args.dietaryRestrictions)
    /\ UNCHANGED <<args, nonPureVars>>

ClientIsValidIngredient ==
    /\ fn = "none"
    /\ args.kind = "validClient"
    /\ fn' = "ClaudeVisionService.isValidIngredient"
    /\ ret' = ClaudeVisionService_isValidIngredient(args.item)
    /\ UNCHANGED <<args, nonPureVars>>

NormalizeIngredient ==
    /\ fn = "none"
    /\ args.kind = "normalize"
    /\ fn' = "normalizeIngredient"
    /\ ret' = normalizeIngredient(args.item)
    /\ UNCHANGED <<args, nonPureVars>>

NextValidator == IsValidIngredient \/ ClientIsValidIngredient \/ NormalizeIngredient

SpecValidator == InitValidator /\ [][NextValidator]_vars

\* The base checks of the validator, as the specification words them.
FailsBase(x, blocklist) ==
    \/ Len(x) < 2
    \/ \A i \in 1..Len(x) : CharAt(x, i) \notin LetterSet
    \/ \E entry \in blocklist : toLowerCase(trim(x)) = entry

ContainsAny(x, blockedList) ==
    \E blocked \in blockedList : includes(toLowerCase(x), blocked)

\* C5: a token that passes the base checks is rejected exactly when the vegan
\* rule applies and hits, or the vegetarian rule applies (no "vegan" in the
\* restrictions) and hits, or the gluten-free rule applies and hits.
C5_DietaryFiltering ==
    (fn = "isValidIngredient" /\ ~FailsBase(args.item, blockedTerms)) =>
        LET x == args.item
            r == toLowerCase(args.dietaryRestrictions)
        IN  (ret = FALSE) <=>
                \/ includes(r, "vegan") /\ ContainsAny(x, veganBlocked)
                \/ /\ ~includes(r, "vegan")
                   /\ includes(r, "vegetarian")
                   /\ ContainsAny(x, vegetarianBlocked)
                \/ includes(r, "gluten-free") /\ ContainsAny(x, glutenBlocked)

\* A vegan-and-vegetarian profile accepts ham: the vegetarian list is skipped;
\* and the gluten-free rule rejects on top of a passing vegan rule.
C5_Witness ==
    /\ fn = "isValidIngredient"
    /\ \/ /\ args.item = "ham"
          /\ args.dietaryRestrictions = "vegan vegetarian"
          /\ ret = TRUE
       \/ /\ args.item = "bread"
          /\ args.dietaryRestrictions = "VEGAN, gluten-free"
          /\ ret = FALSE

\* C6: without dietary restrictions a token is rejected exactly when it has
\* fewer than 2 characters, or no letter, or its lowercased, trimmed form equals
\* a blocklist entry; containing an entry as a proper substring does not reject.
C6_BaseValidation ==
    /\ (fn = "isValidIngredient" /\ args.dietaryRestrictions = "") =>
            ((ret = FALSE) <=> FailsBase(args.item, blockedTerms))
    /\ fn = "ClaudeVisionService.isValidIngredient" =>
            ((ret = FALSE) <=> FailsBase(args.item, blockedGenericTerms))

\* A token that properly contains the blocklist entry "oil" is accepted.
C6_Witness ==
    /\ fn = "isValidIngredient"
    /\ args.dietaryRestrictions = ""
    /\ args.item = "OilA"
    /\ ret = TRUE

\* C7: normalizing the result of normalizeIngredient again changes nothing,
\* for every token the validator accepts.
C7_Idempotent ==
    (fn = "normalizeIngredient" /\ isValidIngredient(args.item, "")) =>
        normalizeIngredient(ret) = ret

(***************************************************************************)
(* Vision Response Parser.                                                 *)
(*                                                                         *)
(* A JSON value of the provider is a record: an array entry is             *)
(*   [t |-> "null"], [t |-> "prim"] (a number) or [t |-> "obj"] with       *)
(*   name = [t |-> "absent" | "str" | "num", v |-> text of the value] and  *)
(*   confidence = -1 (absent) or a percentage;                             *)
(* a field is [t |-> "absent" | "other" | "array", items |-> entries].     *)
(* JSON.parse is the inverse of the serialization on the documents the     *)
(* model draws, and a SyntaxError on every other text.                     *)
(***************************************************************************)
NullItem == [t |-> "null", name |-> [t |-> "absent", v |-> ""], confidence |-> -1]
NamedItem(nm) == [t |-> "obj", name |-> [t |-> "str", v |-> nm], confidence |-> -1]

ItemPool ==
    {NullItem,
     [t |-> "obj", name |-> [t |-> "absent", v |-> ""], confidence |-> -1],
     [t |-> "obj", name |-> [t |-> "num", v |-> "5"], confidence |-> -1],
     NamedItem("Avocados"),
     NamedItem("Red Bell Peppers"),
     NamedItem("Juice.")}

Absent == [t |-> "absent", items |-> <<>>]

FieldValues ==
    {Absent, [t |-> "other", items |-> <<>>]}
        \cup {[t |-> "array", items |-> its] : its \in BSeq(ItemPool, MaxItems)}

\* the other top-level field of a document: none, a list of strings under
\* "ingredients", or the old "items" format
ExtraValues ==
    {Absent,
     [t |-> "ingredients", items |-> <<>>],
     [t |-> "items",
      items |-> <<[t |-> "obj", name |-> [t |-> "str", v |-> "Lime"], confidence |-> 150],
                  [t |-> "obj", name |-> [t |-> "str", v |-> "Kale"], confidence |-> -1]>>]}

Docs == [high_confidence : FieldValues, medium_confidence : FieldValues, extra : ExtraValues]

Quoted(text) == "\"" \o text \o "\""

RECURSIVE join(_, _)
join(parts, sep) ==
    IF parts = <<>> THEN ""
    ELSE IF Len(parts) = 1 THEN parts[1]
    ELSE parts[1] \o sep \o join(Tail(parts), sep)

RECURSIVE digitsOf(_)
digitsOf(n) ==
    IF n < 10 THEN CharAt(Digits, n + 1)
    ELSE digitsOf(n \div 10) \o CharAt(Digits, (n % 10) + 1)

stringifyItem(item) ==
    IF item.t = "null" THEN "null"
    ELSE IF item.t = "prim" THEN "7"
    ELSE "{" \o join((IF item.name.t = "absent" THEN <<Quoted("evidence") \o ":" \o Quoted("label")>>
                      ELSE IF item.name.t = "str"
                           THEN <<Quoted("name") \o ":" \o Quoted(item.name.v)>>
                           ELSE <<Quoted("name") \o ":" \o item.name.v>>)
                     \o (IF item.confidence < 0 THEN <<>>
                         ELSE <<Quoted("confidence") \o ":" \o digitsOf(item.confidence)>>),
                     ",") \o "}"

fieldText(key, field) ==
    IF field.t = "absent" THEN ""
    ELSE IF field.t = "other" THEN Quoted(key) \o ":" \o Quoted("none")
    ELSE IF field.t = "ingredients"
         THEN Quoted(key) \o ":[" \o Quoted("eggs") \o "," \o Quoted("milk") \o "]"
    ELSE Quoted(key) \o ":[" \o join([i \in 1..Len(field.items) |->
                                          stringifyItem(field.items[i])], ",") \o "]"

extraKey(field) == IF field.t = "items" THEN "items" ELSE "ingredients"

present(text) == IF text = "" THEN <<>> ELSE <<text>>

stringify(doc) ==
    "{" \o join(present(fieldText("high_confidence", doc.high_confidence))
                \o present(fieldText("medium_confidence", doc.medium_confidence))
                \o present(fieldText(extraKey(doc.extra), doc.extra)),
                ",") \o "}"

startsAt(text, pos, part) ==
    /\ pos + Len(part) - 1 <= Len(text)
    /\ SubSeq(text, pos, pos + Len(part) - 1) = part

\* JSON.parse, reading the fields from left to right; [ok |-> FALSE] stands for
\* the SyntaxError thrown on a text that is no serialized document
HighTexts == [h \in FieldValues |-> fieldText("high_confidence", h)]

MediumTexts == [m \in FieldValues |-> fieldText("medium_confidence", m)]

JSONparse(text) ==
    LET highs == {h \in FieldValues : startsAt(text, 2, HighTexts[h])}
        next(h) == IF h.t = "absent" THEN 2 ELSE 3 + Len(HighTexts[h])
        mediums(h) == {m \in FieldValues : startsAt(text, next(h), MediumTexts[m])}
        hits == {doc \in UNION {[high_confidence : {h}, medium_confidence : mediums(h),
                                 extra : ExtraValues] : h \in highs} :
                    stringify(doc) = text}
    IN  IF hits = {}
        THEN [ok |-> FALSE, value |-> [high_confidence |-> Absent,
                                       medium_confidence |-> Absent, extra |-> Absent]]
        ELSE [ok |-> TRUE, value |-> CHOOSE doc \in hits : TRUE]

\* textContent.match(/\{[\s\S]*\}/): from the first "{" to the last "}"
jsonMatch(textContent) ==
    LET opens == {i \in 1..Len(textContent) : CharAt(textContent, i) = "{"}
        first == CHOOSE i \in opens : \A j \in opens : i <= j
        closes == {i \in 1..Len(textContent) : CharAt(textContent, i) = "}" /\ i > first}
        last == CHOOSE i \in closes : \A j \in closes : j <= i
    IN  IF opens = {} \/ closes = {} THEN [found |-> FALSE, text |-> ""]
        ELSE [found |-> TRUE, text |-> SubSeq(textContent, first, last)]

\* item.name of a null entry, or .toLowerCase() of a truthy non-string name: TypeError
itemThrows(item) ==
    \/ item.t = "null"
    \/ item.t = "obj" /\ item.name.t = "num" /\ item.name.v # "0"

\* item.name && ... : the name is a non-empty string
hasName(item) == item.t = "obj" /\ item.name.t = "str" /\ item.name.v # ""

\* analyze-ingredients.js 15-17 and 22-24: [threw, items] of one confidence array
processArray(field, dietaryRestrictions) ==
    LET cleaned(item) == trim(toLowerCase(item.name.v))
        keep(item) == hasName(item) /\ isValidIngredient(cleaned(item), dietaryRestrictions)
        normalized(item) == normalizeIngredient(cleaned(item))
        kept == SelectSeq(field.items, keep)
    IN  IF field.t # "array" THEN [threw |-> FALSE, items |-> <<>>]
        ELSE IF \E i \in 1..Len(field.items) : itemThrows(field.items[i])
             THEN [threw |-> TRUE, items |-> <<>>]
             ELSE [threw |-> FALSE, items |-> [i \in 1..Len(kept) |-> normalized(kept[i])]]

\* analyze-ingredients.js 34-39
commaSeparated(textContent, dietaryRestrictions) ==
    LET valid(item) == Len(item) > 0 /\ isValidIngredient(item, dietaryRestrictions)
        parts == split(toLowerCase(textContent), ",")
        tokens == SelectSeq([i \in 1..Len(parts) |-> trim(parts[i])], valid)
    IN  [i \in 1..Len(tokens) |-> normalizeIngredient(tokens[i])]

\* analyze-ingredients.js 5-28, the body of the try: what it does and whether
\* it returned, threw, or fell through without a match
jsonAttempt(textContent, dietaryRestrictions) ==
    LET m == jsonMatch(textContent)
        parsed == JSONparse(m.text)
        high == processArray(parsed.value.high_confidence, dietaryRestrictions)
        medium == processArray(parsed.value.medium_confidence, dietaryRestrictions)
    IN  IF ~m.found THEN [outcome |-> "noMatch", items |-> <<>>]
        ELSE IF ~parsed.ok \/ high.threw \/ medium.threw
             THEN [outcome |-> "threw", items |-> <<>>]
             ELSE [outcome |-> "returned", items |-> high.items \o medium.items]

\* Variant whose try block ends after JSON.parse.
parseNarrowTry(textContent, dietaryRestrictions) ==
    LET attempt == jsonAttempt(textContent, dietaryRestrictions)
    IN  IF attempt.outcome = "returned"
        THEN [raised |-> FALSE, path |-> "json", items |-> attempt.items]
        ELSE IF attempt.outcome = "threw" /\ JSONparse(jsonMatch(textContent).text).ok
             THEN [raised |-> TRUE, path |-> "json", items |-> <<>>]
             ELSE [raised |-> FALSE, path |-> "comma",
                   items |-> commaSeparated(textContent, dietaryRestrictions)]

\* analyze-ingredients.js 4-40
parseIngredientsFromResponse(textContent, dietaryRestrictions) ==
    LET attempt == jsonAttempt(textContent, dietaryRestrictions)
    IN  IF attempt.outcome = "returned"
        THEN [raised |-> FALSE, path |-> "json", items |-> attempt.items]
        ELSE [raised |-> FALSE, path |-> "comma",
              items |-> commaSeparated(textContent, dietaryRestrictions)]

\* claudeVision.ts 721-754, in insertion order
clientNormalizations ==
    <<<<"tomato", "tomatoes">>, <<"onion", "onions">>, <<"carrot", "carrots">>,
      <<"apple", "apples">>, <<"orange", "oranges">>, <<"lemon", "lemons">>,
      <<"lime", "limes">>, <<"potato", "potatoes">>, <<"yams", "yam">>,
      <<"vegetable oil", "olive oil">>, <<"cooking oil", "olive oil">>,
      <<"cooking oils", "olive oil">>,
      <<"leafy greens", "lettuce">>, <<"salad greens", "lettuce">>,
      <<"a1", "a1 sauce">>, <<"hellmanns", "hellmanns mayo">>,
      <<"bell pepper", "peppers">>, <<"green pepper", "peppers">>,
      <<"red pepper", "peppers">>,
      <<"cheddar cheese", "cheese">>, <<"mozzarella cheese", "cheese">>>>

\* claudeVision.ts 712-765
ClaudeVisionService_normalizeIngredient(item) ==
    applyFirstRule(collapseWhitespace(stripPunctuation(trim(toLowerCase(item)))),
                   clientNormalizations)

\* claudeVision.ts 586-600 and 603-617: one confidence array, tagged
clientProcessArray(field, confidence) ==
    LET cleaned(item) == trim(toLowerCase(item.name.v))
        keep(item) == hasName(item) /\ ClaudeVisionService_isValidIngredient(cleaned(item))
        kept == SelectSeq(field.items, keep)
    IN  IF field.t # "array" THEN [threw |-> FALSE, items |-> <<>>]
        ELSE IF \E i \in 1..Len(field.items) : itemThrows(field.items[i])
             THEN [threw |-> TRUE, items |-> <<>>]
             ELSE [threw |-> FALSE,
                   items |-> [i \in 1..Len(kept) |->
                                [ingredient |-> ClaudeVisionService_normalizeIngredient(cleaned(kept[i])),
                                 confidence |-> confidence]]]

\* claudeVision.ts 624-645: the old format, confidence clamped to 0..1 (in percent)
clientProcessItems(field) ==
    LET cleaned(item) == trim(toLowerCase(item.name.v))
        throws(item) == \/ item.t = "null"
                        \/ /\ item.t = "obj" /\ item.name.t = "num" /\ item.name.v # "0"
                           /\ item.confidence >= 0
        keep(item) == /\ hasName(item)
                      /\ item.confidence >= 0
                      /\ ClaudeVisionService_isValidIngredient(cleaned(item))
        clamp(c) == IF c > 100 THEN 100 ELSE c
        kept == SelectSeq(field.items, keep)
    IN  IF \E i \in 1..Len(field.items) : throws(field.items[i])
        THEN [threw |-> TRUE, items |-> <<>>]
        ELSE [threw |-> FALSE,
              items |-> [i \in 1..Len(kept) |->
                            [ingredient |-> ClaudeVisionService_normalizeIngredient(cleaned(kept[i])),
                             confidence |-> clamp(kept[i].confidence)]]]

\* claudeVision.ts 652-660
clientCommaSeparated(textContent) ==
    LET valid(item) == Len(item) > 0 /\ ClaudeVisionService_isValidIngredient(item)
        parts == split(toLowerCase(textContent), ",")
        tokens == SelectSeq([i \in 1..Len(parts) |-> trim(parts[i])], valid)
        unique == firstOccurrences([i \in 1..Len(tokens) |->
                                        ClaudeVisionService_normalizeIngredient(tokens[i])])
    IN  [i \in 1..Len(unique) |-> [ingredient |-> unique[i], confidence |-> 70]]

\* claudeVision.ts 573-646, the body of the inner try
clientJsonAttempt(textContent) ==
    LET m == jsonMatch(textContent)
        parsed == JSONparse(m.text)
        doc == parsed.value
        high == clientProcessArray(doc.high_confidence, 95)
        medium == clientProcessArray(doc.medium_confidence, 80)
        old == clientProcessItems(doc.extra)
    IN  IF ~m.found THEN [outcome |-> "noMatch", items |-> <<>>]
        ELSE IF ~parsed.ok THEN [outcome |-> "threw", items |-> <<>>]
        ELSE IF doc.high_confidence.t # "absent" \/ doc.medium_confidence.t # "absent"
             THEN (IF high.threw \/ medium.threw
                   THEN [outcome |-> "threw", items |-> <<>>]
                   ELSE [outcome |-> "returned", items |-> high.items \o medium.items])
        ELSE IF doc.extra.t = "items"
             THEN (IF old.threw
                   THEN [outcome |-> "threw", items |-> <<>>]
                   ELSE [outcome |-> "returned", items |-> old.items])
        ELSE [outcome |-> "noMatch", items |-> <<>>]

\* claudeVision.ts 556-668, from the joined text on; nothing in the outer try
\* throws on a string, so its catch (return []) is never taken
ClaudeVisionService_parseClaudeResponse(textContent) ==
    LET attempt == clientJsonAttempt(textContent)
    IN  IF textContent = "" THEN [raised |-> FALSE, path |-> "empty", items |-> <<>>]
        ELSE IF attempt.outcome = "returned"
             THEN [raised |-> FALSE, path |-> "json", items |-> attempt.items]
             ELSE [raised |-> FALSE, path |-> "comma",
                   items |-> clientCommaSeparated(textContent)]

(***************************************************************************)
(* Pure-function runs of the Vision Response Parser.                       *)
(***************************************************************************)
Wrappers == {<<"", "">>, <<"Found: ", ", eggs">>}

PlainTexts ==
    {"", "eggs, milk, tomatoes", "{oops}, Red Pepper.", "} kale {", "Oil., Mi.lk, tofu",
     "{" \o Quoted("high_confidence") \o ":[}, oil, lime"}

ParserInputs ==
    [kind : {"parse"},
     textContent : {w[1] \o stringify(doc) \o w[2] : w \in Wrappers, doc \in Docs},
     dietaryRestrictions : {""}]
    \cup [kind : {"parse"}, textContent : PlainTexts, dietaryRestrictions : {"", "vegan"}]

InitParser ==
    /\ fn = "none"
    /\ args \in ParserInputs
    /\ ret = <<>>
    /\ idleDiscovery
    /\ idleHandler
    /\ idleUpload
    /\ idleUsage

ParseIngredientsFromResponse ==
    /\ fn = "none"
    /\ args.kind = "parse"
    /\ fn' = "parseIngredientsFromResponse"
    /\ ret' = parseIngredientsFromResponse(args.textContent, args.dietaryRestrictions)
    /\ UNCHANGED <<args, nonPureVars>>

ParseClaudeResponse ==
    /\ fn = "none"
    /\ args.kind = "parse"
    /\ fn' = "ClaudeVisionService.parseClaudeResponse"
    /\ ret' = ClaudeVisionService_parseClaudeResponse(args.textContent)
    /\ UNCHANGED <<args, nonPureVars>>

NextParser == ParseIngredientsFromResponse \/ ParseClaudeResponse

SpecParser == InitParser /\ [][NextParser]_vars

\* The {...} span of the text and the JSON document it parses to.
ParsedDoc(text) == JSONparse(jsonMatch(text).text)

\* An array entry on which reading or lower-casing .name fails.
BadEntry(item) == item.t = "null" \/ (item.name.t = "num" /\ item.name.v # "0")

HasBadEntry(field) ==
    field.t = "array" /\ \E i \in 1..Len(field.items) : BadEntry(field.items[i])

\* The JSON path fails: the span is no valid JSON, or an entry of a confidence
\* array is null or has a non-string name.
JsonPathFails(text) ==
    LET parsed == ParsedDoc(text)
    IN  /\ jsonMatch(text).found
        /\ \/ ~parsed.ok
           \/ HasBadEntry(parsed.value.high_confidence)
           \/ HasBadEntry(parsed.value.medium_confidence)

\* C8: a {...} span that parses but has neither confidence array makes the
\* parser return the validated, normalized comma-separated tokens of the text.
C8_FallbackWhenArraysAbsent ==
    fn = "parseIngredientsFromResponse" =>
        LET parsed == ParsedDoc(args.textContent)
        IN  (/\ jsonMatch(args.textContent).found
             /\ parsed.ok
             /\ parsed.value.high_confidence.t # "array"
             /\ parsed.value.medium_confidence.t # "array")
                => ret.items = commaSeparated(args.textContent, args.dietaryRestrictions)

\* C9: the parser never raises, and a failure on the JSON path (no valid JSON
\* in the span, or an entry that is null or has a non-string name) yields the
\* comma-separated result.
C9_NeverRaises ==
    /\ fn = "parseIngredientsFromResponse" =>
        /\ ret.raised = FALSE
        /\ JsonPathFails(args.textContent) =>
                ret.items = commaSeparated(args.textContent, args.dietaryRestrictions)
    /\ fn = "ClaudeVisionService.parseClaudeResponse" =>
        /\ ret.raised = FALSE
        /\ JsonPathFails(args.textContent) =>
                ret.items = clientCommaSeparated(args.textContent)

\* A response whose high_confidence array holds a null entry is answered from
\* the comma-separated path.
C9_Witness ==
    /\ fn = "parseIngredientsFromResponse"
    /\ args.textContent = "Found: {" \o Quoted("high_confidence") \o ":[null]}, eggs"
    /\ ret.path = "comma"
    /\ ret.items = <<"found high_confidencenull", "eggs">>

\* C22: no ingredient the parser returns, on either path, is a blocked
\* generic term.
C22_NoBlockedTerm ==
    fn = "parseIngredientsFromResponse" =>
        \A i \in 1..Len(ret.items) : ret.items[i] \notin blockedTerms

\* C28: with a vegan restriction no returned ingredient contains a
\* vegan-blocked substring.
C28_VeganOutput ==
    (fn = "parseIngredientsFromResponse"
        /\ includes(toLowerCase(args.dietaryRestrictions), "vegan"))
    => \A i \in 1..Len(ret.items) : ~someIncluded(ret.items[i], veganBlocked)

(***************************************************************************)
(* Ingredient Deduplicator (analyze-ingredients.js 121-145).               *)
(***************************************************************************)
duplicateGroups ==
    {{"lemon", "lemons"}, {"lime", "limes"}, {"fruit", "fruits"},
     {"oil", "oils", "olive oil"}, {"milk", "milk."}, {"juice", "juices"}}

\* the filter callback on the elements from position i on, with the set `seen`
RECURSIVE dedupeFrom(_, _, _)
dedupeFrom(list, i, seen) ==
    IF i > Len(list) THEN <<>>
    ELSE LET normalized == trim(toLowerCase(list[i]))
             alreadyHasFromGroup ==
                 \E group \in duplicateGroups :
                     normalized \in group /\ \E seenItem \in seen : seenItem \in group
         IN  IF normalized \in seen THEN dedupeFrom(list, i + 1, seen)
             ELSE IF alreadyHasFromGroup THEN dedupeFrom(list, i + 1, seen)
             ELSE <<list[i]>> \o dedupeFrom(list, i + 1, seen \cup {normalized})

\* Variant that only drops exact repeats.
RECURSIVE exactFrom(_, _, _)
exactFrom(list, i, seen) ==
    IF i > Len(list) THEN <<>>
    ELSE IF trim(toLowerCase(list[i])) \in seen THEN exactFrom(list, i + 1, seen)
    ELSE <<list[i]>> \o exactFrom(list, i + 1, seen \cup {trim(toLowerCase(list[i]))})

dedupeExactOnly(list) == exactFrom(list, 1, {})

deduplicateIngredients(list) == dedupeFrom(list, 1, {})

DedupePool == {"lemon", "lemons", "Lemon ", "lime", "oil", "olive oil"}

DedupeInputs == [kind : {"dedupe"}, ingredients : BSeq(DedupePool, MaxIngredients)]

InitDedupe ==
    /\ fn = "none"
    /\ args \in DedupeInputs
    /\ ret = <<>>
    /\ idleDiscovery
    /\ idleHandler
    /\ idleUpload
    /\ idleUsage

DeduplicateIngredients ==
    /\ fn = "none"
    /\ args.kind = "dedupe"
    /\ fn' = "deduplicateIngredients"
    /\ ret' = deduplicateIngredients(args.ingredients)
    /\ UNCHANGED <<args, nonPureVars>>

NextDedupe == DeduplicateIngredients

SpecDedupe == InitDedupe /\ [][NextDedupe]_vars

\* Two strings name the same ingredient for the deduplicator: equal after
\* lower-casing and trimming, or members of one equivalence group.
SameIngredient(x, y) ==
    LET nx == toLowerCase(trim(x))
        ny == toLowerCase(trim(y))
    IN  nx = ny \/ \E group \in duplicateGroups : nx \in group /\ ny \in group

\* The positions kept by a left-to-right scan: a position is kept iff no
\* earlier kept position names the same ingredient.
KeptPositions(list) ==
    LET kept[i \in 0..Len(list)] ==
            IF i = 0 THEN {}
            ELSE IF \E j \in kept[i - 1] : SameIngredient(list[j], list[i])
                 THEN kept[i - 1]
                 ELSE kept[i - 1] \cup {i}
    IN  kept[Len(list)]

\* C10: the output is the input restricted, in order, to the positions kept
\* by the scan; [lemon, lemons, lime] gives [lemon, lime].
C10_Dedupe ==
    fn = "deduplicateIngredients" =>
        LET list == args.ingredients
            K == KeptPositions(list)
        IN  /\ Len(ret) = Cardinality(K)
            /\ \A i \in K : ret[Cardinality({k \in K : k <= i})] = list[i]
            /\ list = <<"lemon", "lemons", "lime">> => ret = <<"lemon", "lime">>

C10_Witness ==
    /\ fn = "deduplicateIngredients"
    /\ args.ingredients = <<"lemon", "lemons", "lime">>
    /\ ret = <<"lemon", "lime">>

(***************************************************************************)
(* Recipe Response Parser (claudeRecipeGeneration.ts 153-198).             *)
(*                                                                         *)
(* A JSON value of a recipe field is [t, s, n, a]: t = "absent", "str"     *)
(* (text s), "num" (number n) or "arr" (array a of strings).               *)
(***************************************************************************)
JAbsent == [t |-> "absent", s |-> "", n |-> 0, a |-> <<>>]
JStr(text) == [t |-> "str", s |-> text, n |-> 0, a |-> <<>>]
JNum(number) == [t |-> "num", s |-> "", n |-> number, a |-> <<>>]
JArr(elements) == [t |-> "arr", s |-> "", n |-> 0, a |-> elements]

RecipeFields ==
    <<"title", "description", "ingredients", "instructions", "prep_time", "cook_time",
      "servings", "cuisine", "dietary_tags", "difficulty", "tips", "variations">>

EmptyObject == [kind |-> "obj"] @@ [f \in Range(RecipeFields) |-> JAbsent]

\* raw entries of parsedData.recipes: null, {}, a well-typed recipe, a recipe
\* without servings and with difficulty "extreme", and recipes with wrong types
RawRecipes ==
    {[EmptyObject EXCEPT !.kind = "null"],
     EmptyObject,
     [EmptyObject EXCEPT !.title = JStr("Omelette"), !.description = JStr("Quick"),
                         !.ingredients = JArr(<<"eggs", "butter">>),
                         !.instructions = JArr(<<"Beat", "Fry">>),
                         !.prep_time = JNum(5), !.cook_time = JNum(0), !.servings = JNum(2),
                         !.cuisine = JArr(<<"French">>), !.dietary_tags = JArr(<<>>),
                         !.difficulty = JStr("hard"), !.tips = JArr(<<"Serve hot">>)],
     [EmptyObject EXCEPT !.title = JStr(""), !.description = JStr(""),
                         !.ingredients = JArr(<<"rice">>), !.prep_time = JNum(20),
                         !.difficulty = JStr("extreme"), !.variations = JArr(<<>>)],
     [EmptyObject EXCEPT !.title = JNum(0), !.description = JAbsent,
                         !.ingredients = JStr("eggs"), !.instructions = JNum(1),
                         !.prep_time = JStr("10"), !.cook_time = JArr(<<"30">>),
                         !.servings = JStr("4"), !.cuisine = JStr("Thai"),
                         !.dietary_tags = JNum(2), !.difficulty = JStr("Easy"),
                         !.tips = JStr("stir"), !.variations = JNum(3)],
     [EmptyObject EXCEPT !.title = JNum(5), !.description = JArr(<<"tasty">>),
                         !.difficulty = JArr(<<"easy">>)],
     [EmptyObject EXCEPT !.title = JStr("Soup"), !.prep_time = JNum(-5),
                         !.cook_time = JNum(-1), !.servings = JNum(0)]}

\* parsedData: recipes missing, a string, the number 0, or an array of entries
RecipeDocs ==
    {[t |-> x, entries |-> <<>>] : x \in {"absent", "string", "zero"}}
        \cup {[t |-> "array", entries |-> es] : es \in BSeq(RawRecipes, MaxRawRecipes)}

stringifyValue(value) ==
    IF value.t = "str" THEN Quoted(value.s)
    ELSE IF value.t = "num"
         THEN (IF value.n < 0 THEN "-" \o digitsOf(-value.n) ELSE digitsOf(value.n))
    ELSE "[" \o join([i \in 1..Len(value.a) |-> Quoted(value.a[i])], ",") \o "]"

stringifyRecipe(recipe) ==
    LET member(i) == IF recipe[RecipeFields[i]].t = "absent" THEN <<>>
                     ELSE <<Quoted(RecipeFields[i]) \o ":"
                                \o stringifyValue(recipe[RecipeFields[i]])>>
        RECURSIVE members(_)
        members(i) == IF i > Len(RecipeFields) THEN <<>> ELSE member(i) \o members(i + 1)
    IN  IF recipe.kind = "null" THEN "null" ELSE "{" \o join(members(1), ",") \o "}"

stringifyRecipes(doc) ==
    IF doc.t = "absent" THEN "{" \o Quoted("error") \o ":" \o Quoted("overloaded") \o "}"
    ELSE IF doc.t = "string" THEN "{" \o Quoted("recipes") \o ":" \o Quoted("none") \o "}"
    ELSE IF doc.t = "zero" THEN "{" \o Quoted("recipes") \o ":0}"
    ELSE "{" \o Quoted("recipes") \o ":["
             \o join([i \in 1..Len(doc.entries) |-> stringifyRecipe(doc.entries[i])], ",")
             \o "]}"

RecipeTexts == [doc \in RecipeDocs |-> stringifyRecipes(doc)]

\* JSON.parse on the texts of RecipeDocs; a SyntaxError on every other text
parseRecipesJSON(text) ==
    LET hits == {doc \in RecipeDocs : RecipeTexts[doc] = text}
    IN  IF hits = {} THEN [ok |-> FALSE, value |-> [t |-> "absent", entries |-> <<>>]]
        ELSE [ok |-> TRUE, value |-> CHOOSE doc \in hits : TRUE]

\* JavaScript truthiness of a field value
truthy(value) ==
    \/ value.t = "arr"
    \/ value.t = "str" /\ value.s # ""
    \/ value.t = "num" /\ value.n # 0

Difficulties == {"easy", "medium", "hard"}

\* claudeRecipeGeneration.ts 177-191: the map callback
toGeneratedRecipe(recipe, index) ==
    LET arrayOr(value, default) == IF value.t = "arr" THEN value ELSE default
        numberOr(value, default) == IF value.t = "num" THEN value ELSE default
    IN  [id |-> index,
         title |-> IF truthy(recipe.title) THEN recipe.title ELSE JStr("Untitled Recipe"),
         description |-> IF truthy(recipe.description) THEN recipe.description ELSE JStr(""),
         ingredients |-> arrayOr(recipe.ingredients, JArr(<<>>)),
         instructions |-> arrayOr(recipe.instructions, JArr(<<>>)),
         prep_time |-> numberOr(recipe.prep_time, JNum(15)),
         cook_time |-> numberOr(recipe.cook_time, JNum(30)),
         servings |-> numberOr(recipe.servings, JNum(4)),
         cuisine |-> arrayOr(recipe.cuisine, JArr(<<"International">>)),
         dietary_tags |-> arrayOr(recipe.dietary_tags, JArr(<<>>)),
         difficulty |-> IF recipe.difficulty.t = "str" /\ recipe.difficulty.s \in Difficulties
                        THEN recipe.difficulty ELSE JStr("medium"),
         tips |-> arrayOr(recipe.tips, JAbsent),
         variations |-> arrayOr(recipe.variations, JAbsent)]

\* Variant that throws only when the text has no {...} span.
parseRecipesLenient(textContent) ==
    LET m == jsonMatch(textContent)
        parsed == parseRecipesJSON(m.text)
        entries == parsed.value.entries
        objects == SelectSeq(entries, LAMBDA e : e.kind # "null")
    IN  IF ~m.found THEN [threw |-> TRUE, recipes |-> <<>>]
        ELSE [threw |-> FALSE,
              recipes |-> [i \in 1..Len(objects) |-> toGeneratedRecipe(objects[i], i - 1)]]

\* claudeRecipeGeneration.ts 153-198 on the joined text of the response
parseRecipeResponse(textContent) ==
    LET failure == [threw |-> TRUE, recipes |-> <<>>]
        m == jsonMatch(textContent)
        parsedData == parseRecipesJSON(m.text)
        entries == parsedData.value.entries
    IN  IF textContent = "" THEN failure
        ELSE IF ~m.found THEN failure
        ELSE IF ~parsedData.ok THEN failure
        ELSE IF parsedData.value.t # "array" THEN failure
        ELSE IF \E i \in 1..Len(entries) : entries[i].kind = "null" THEN failure
        ELSE [threw |-> FALSE,
              recipes |-> [i \in 1..Len(entries) |-> toGeneratedRecipe(entries[i], i - 1)]]

RecipeResponseInputs ==
    [kind : {"recipes"},
     textContent : {w[1] \o RecipeTexts[doc] \o w[2] :
                        w \in {<<"", "">>, <<"Here you go: ", " Enjoy!">>}, doc \in RecipeDocs}
                     \cup {"", "Sorry, no recipes today.", "{recipes: []}", "} {"}]

InitRecipeParser ==
    /\ fn = "none"
    /\ args \in RecipeResponseInputs
    /\ ret = <<>>
    /\ idleDiscovery
    /\ idleHandler
    /\ idleUpload
    /\ idleUsage

ParseRecipeResponse ==
    /\ fn = "none"
    /\ args.kind = "recipes"
    /\ fn' = "parseRecipeResponse"
    /\ ret' = parseRecipeResponse(args.textContent)
    /\ UNCHANGED <<args, nonPureVars>>

NextRecipeParser == ParseRecipeResponse

SpecRecipeParser == InitRecipeParser /\ [][NextRecipeParser]_vars

\* The document in the {...} span of the text.
RecipeSpan(text) == parseRecipesJSON(jsonMatch(text).text)

\* C11: the parser throws whenever the text has no {...} span, the span is not
\* valid JSON, or recipes is missing or not an array; a list is returned only
\* when recipes is an array.
C11_HardFailure ==
    fn = "parseRecipeResponse" =>
        LET found == jsonMatch(args.textContent).found
            span == RecipeSpan(args.textContent)
            isArray == found /\ span.ok /\ span.value.t = "array"
        IN  /\ ~isArray => (ret.threw /\ ret.recipes = <<>>)
            /\ ~ret.threw => (isArray /\ Len(ret.recipes) = Len(span.value.entries))

\* The parser throws on prose, on an invalid span and on a non-array recipes
\* field, and returns the empty list for an empty recipes array.
C11_Witness ==
    /\ fn = "parseRecipeResponse"
    /\ \/ args.textContent = "Sorry, no recipes today." /\ ret.threw
       \/ args.textContent = "{recipes: []}" /\ ret.threw
       \/ args.textContent = "{" \o Quoted("recipes") \o ":0}" /\ ret.threw
       \/ args.textContent = "{" \o Quoted("recipes") \o ":[]}" /\ ~ret.threw

\* The value the specification gives a field: the raw value when it has the
\* expected type, the default otherwise.
Coerced(value, type, default) == IF value.t = type THEN value ELSE default

\* C12: every raw entry of a recipes array yields a recipe whose fields are
\* the well-typed raw values or the defaults; no entry makes the parser fail.
C12_Defaulting ==
    fn = "parseRecipeResponse" =>
        LET span == RecipeSpan(args.textContent)
            raw == span.value.entries
        IN  (jsonMatch(args.textContent).found /\ span.ok /\ span.value.t = "array") =>
                /\ ~ret.threw
                /\ Len(ret.recipes) = Len(raw)
                /\ \A i \in 1..Len(raw) :
                    LET r == ret.recipes[i]
                    IN  /\ r.title = (IF raw[i].title.t = "str" /\ raw[i].title.s # ""
                                      THEN raw[i].title ELSE JStr("Untitled Recipe"))
                        /\ r.description = Coerced(raw[i].description, "str", JStr(""))
                        /\ r.ingredients = Coerced(raw[i].ingredients, "arr", JArr(<<>>))
                        /\ r.instructions = Coerced(raw[i].instructions, "arr", JArr(<<>>))
                        /\ r.prep_time = Coerced(raw[i].prep_time, "num", JNum(15))
                        /\ r.cook_time = Coerced(raw[i].cook_time, "num", JNum(30))
                        /\ r.servings = Coerced(raw[i].servings, "num", JNum(4))
                        /\ r.cuisine = Coerced(raw[i].cuisine, "arr", JArr(<<"International">>))
                        /\ r.dietary_tags = Coerced(raw[i].dietary_tags, "arr", JArr(<<>>))
                        /\ r.difficulty = (IF raw[i].difficulty.t = "str"
                                              /\ raw[i].difficulty.s \in Difficulties
                                           THEN raw[i].difficulty ELSE JStr("medium"))
                        /\ r.tips = Coerced(raw[i].tips, "arr", JAbsent)
                        /\ r.variations = Coerced(raw[i].variations, "arr", JAbsent)

\* C23: every recipe returned has prep_time >= 0, cook_time >= 0 and
\* servings >= 1.
C23_NumericRanges ==
    (fn = "parseRecipeResponse" /\ ~ret.threw) =>
        \A i \in 1..Len(ret.recipes) :
            /\ ret.recipes[i].prep_time.n >= 0
            /\ ret.recipes[i].cook_time.n >= 0
            /\ ret.recipes[i].servings.n >= 1

(***************************************************************************)
(* Netlify functions: analyze-ingredients.js 147-324 and                   *)
(* generate-recipes.js 3-177.  One handler invocation per behaviour, cut   *)
(* at the awaits of the image loop and of the provider call.               *)
(***************************************************************************)
CorsHeaders ==
    {"Access-Control-Allow-Origin", "Access-Control-Allow-Headers",
     "Access-Control-Allow-Methods"}

\* return { statusCode, headers, body: JSON.stringify({ error }) }
errorResponse(statusCode, error) ==
    [NoResponse EXCEPT !.statusCode = statusCode, !.headers = CorsHeaders,
                       !.empty = FALSE, !.error = error]

\* Array.prototype.slice(0, end)
slice(array, end) == SubSeq(array, 1, IF Len(array) < end THEN Len(array) ELSE end)

\* Set.prototype.add for each element of items, on a Set kept in insertion order
RECURSIVE addAll(_, _)
addAll(set, items) ==
    IF items = <<>> THEN set
    ELSE addAll(IF Head(items) \in Range(set) THEN set ELSE Append(set, Head(items)),
                Tail(items))

\* UTF-16 code unit order of the characters a normalized ingredient can hold
CodeUnitOrder == " 0123456789ABCDEFGHIJKLMNOPQRSTUVWXYZ_abcdefghijklmnopqrstuvwxyz"

CodeUnit == [c \in CharsOf(CodeUnitOrder) |->
                CHOOSE i \in 1..Len(CodeUnitOrder) : CharAt(CodeUnitOrder, i) = c]

\* the default comparison of Array.prototype.sort: a sorts before b
RECURSIVE sortsBefore(_, _)
sortsBefore(a, b) ==
    IF b = "" THEN FALSE
    ELSE IF a = "" THEN TRUE
    ELSE IF CharAt(a, 1) # CharAt(b, 1) THEN CodeUnit[CharAt(a, 1)] < CodeUnit[CharAt(b, 1)]
    ELSE sortsBefore(SubSeq(a, 2, Len(a)), SubSeq(b, 2, Len(b)))

RECURSIVE sort(_)
sort(array) ==
    IF array = <<>> THEN <<>>
    ELSE LET rest == sort(Tail(array))
             before == SelectSeq(rest, LAMBDA x : sortsBefore(x, Head(array)))
             after == SelectSeq(rest, LAMBDA x : ~sortsBefore(x, Head(array)))
         IN  before \o <<Head(array)>> \o after

assumedStaples == <<"salt", "pepper", "olive oil", "water">>

\* analyze-ingredients.js 290-295
finalResult(all) == sort(addAll(<<>>, deduplicateIngredients(all) \o assumedStaples))

Methods == {"OPTIONS", "POST", "GET", "DELETE"}

DietaryOptions == {"", "vegan"}

imageUrlsOf(n) == [i \in 1..n |-> "https://img/" \o digitsOf(i)]

\* event.body: no JSON, JSON without the expected fields, or a well-formed body
AnalyzeRequests ==
    [endpoint : {"analyze"}, httpMethod : Methods, apiKey : BOOLEAN,
     body : [kind : {"malformed", "noFields"}, imageUrls : {<<>>},
             dietaryRestrictions : {""}]
            \cup [kind : {"ok"}, imageUrls : {imageUrlsOf(n) : n \in 0..MaxImages},
                  dietaryRestrictions : DietaryOptions]]

GenerateRequests ==
    [endpoint : {"generate"}, httpMethod : Methods, apiKey : BOOLEAN,
     body : [kind : {"malformed", "noFields", "ok"}, imageUrls : {<<>>},
             dietaryRestrictions : {""}]]

\* texts of the vision provider
ProviderTexts ==
    {"eggs, Olive Oil", "fruit, 12, Lemon", "Oil.",
     stringify([high_confidence |-> [t |-> "array", items |-> <<NamedItem("Avocados")>>],
                medium_confidence |-> Absent, extra |-> Absent])}

\* parseIngredientsFromResponse on each provider text, computed once
parsedIngredients ==
    [text \in ProviderTexts, restrictions \in DietaryOptions |->
        parseIngredientsFromResponse(text, restrictions).items]

\* what the network does for one image: the image fetch is not ok or rejects,
\* the provider answers not ok, reading the answer throws, or a text arrives
ImageOutcomes ==
    [kind : {"fetchFailed", "providerFailed", "threw"}, text : {""}]
        \cup [kind : {"ok"}, text : ProviderTexts]

\* texts of the recipe provider
GenerationTexts ==
    {"Sorry, no recipes today.", "{recipes}"}
        \cup {RecipeTexts[doc] : doc \in {d \in RecipeDocs : Len(d.entries) <= 1}}

GenerationOutcomes ==
    [kind : {"threw", "notOk"}, text : {""}] \cup [kind : {"ok"}, text : GenerationTexts]

InitHandler ==
    /\ idlePure
    /\ idleDiscovery
    /\ idleUpload
    /\ idleUsage
    /\ request \in AnalyzeRequests \cup GenerateRequests
    /\ hpc = "request"
    /\ imageIndex = 0
    /\ allIngredients = <<>>
    /\ outcomes = <<>>
    /\ fetched = <<>>
    /\ providerCalls = 0
    /\ response = NoResponse

\* Variant that checks the API key only after the provider answered.
checksWithoutKey(failureText) ==
    IF request.httpMethod = "OPTIONS"
    THEN [NoResponse EXCEPT !.statusCode = 200, !.headers = CorsHeaders]
    ELSE IF request.httpMethod # "POST" THEN errorResponse(405, "Method not allowed")
    ELSE IF request.body.kind # "ok" THEN errorResponse(500, failureText)
    ELSE NoResponse

\* Variant that parses the body before it looks at the method.
checksBodyFirst(failureText) ==
    IF request.body.kind = "malformed" THEN errorResponse(500, failureText)
    ELSE IF request.httpMethod = "OPTIONS"
    THEN [NoResponse EXCEPT !.statusCode = 200, !.headers = CorsHeaders]
    ELSE IF request.httpMethod # "POST" THEN errorResponse(405, "Method not allowed")
    ELSE IF ~request.apiKey THEN errorResponse(500, "Claude API key not configured")
    ELSE IF request.body.kind = "noFields" THEN errorResponse(500, failureText)
    ELSE NoResponse

\* Both handlers from the entry to the first await: the method checks, the
\* parse of event.body and the API key check.
methodAndKeyChecks(failureText) ==
    IF request.httpMethod = "OPTIONS"
    THEN [NoResponse EXCEPT !.statusCode = 200, !.headers = CorsHeaders]
    ELSE IF request.httpMethod # "POST" THEN errorResponse(405, "Method not allowed")
    ELSE IF request.body.kind = "malformed" THEN errorResponse(500, failureText)
    ELSE IF ~request.apiKey THEN errorResponse(500, "Claude API key not configured")
    ELSE IF request.body.kind = "noFields" THEN errorResponse(500, failureText)
    ELSE NoResponse

\* analyze-ingredients.js 147-185
AnalyzeStart ==
    /\ hpc = "request"
    /\ request.endpoint = "analyze"
    /\ LET early == methodAndKeyChecks("Failed to analyze ingredients")
       IN  IF early = NoResponse
           THEN hpc' = "images" /\ UNCHANGED response
           ELSE hpc' = "done" /\ response' = early
    /\ UNCHANGED <<nonHandlerVars, request, imageIndex, allIngredients, outcomes, fetched,
                   providerCalls>>

\* Variant without the cap.
visitedAll(imageUrls) == imageUrls

\* the images the loop of line 185 visits
visited(imageUrls) == slice(imageUrls, 5)

\* Variant in which a failing image ends the request with status 500.
AnalyzeImageFatal ==
    /\ hpc = "images"
    /\ imageIndex < Len(visited(request.body.imageUrls))
    /\ \E outcome \in ImageOutcomes :
        /\ outcomes' = Append(outcomes, outcome)
        /\ fetched' = Append(fetched, visited(request.body.imageUrls)[imageIndex + 1])
        /\ providerCalls' = IF outcome.kind = "fetchFailed" THEN providerCalls
                            ELSE providerCalls + 1
        /\ IF outcome.kind = "ok"
           THEN /\ allIngredients' =
                     addAll(allIngredients,
                            parsedIngredients[outcome.text, request.body.dietaryRestrictions])
                /\ UNCHANGED <<hpc, response>>
           ELSE /\ hpc' = "done"
                /\ response' = errorResponse(500, "Failed to analyze ingredients")
                /\ UNCHANGED allIngredients
    /\ imageIndex' = imageIndex + 1
    /\ UNCHANGED <<nonHandlerVars, request>>

\* One iteration of the loop (lines 185-287).
AnalyzeImage ==
    /\ hpc = "images"
    /\ imageIndex < Len(visited(request.body.imageUrls))
    /\ \E outcome \in ImageOutcomes :
        /\ outcomes' = Append(outcomes, outcome)
        /\ fetched' = Append(fetched, visited(request.body.imageUrls)[imageIndex + 1])
        /\ providerCalls' = IF outcome.kind = "fetchFailed" THEN providerCalls
                            ELSE providerCalls + 1
        /\ allIngredients' =
              IF outcome.kind = "ok"
              THEN addAll(allIngredients,
                          parsedIngredients[outcome.text, request.body.dietaryRestrictions])
              ELSE allIngredients
    /\ imageIndex' = imageIndex + 1
    /\ UNCHANGED <<nonHandlerVars, request, hpc, response>>

\* After the loop (lines 289-314).
AnalyzeRespond ==
    /\ hpc = "images"
    /\ imageIndex = Len(visited(request.body.imageUrls))
    /\ response' = [NoResponse EXCEPT !.statusCode = 200, !.headers = CorsHeaders,
                                      !.empty = FALSE,
                                      !.ingredients = finalResult(allIngredients)]
    /\ hpc' = "done"
    /\ UNCHANGED <<nonHandlerVars, request, imageIndex, allIngredients, outcomes, fetched,
                   providerCalls>>

\* generate-recipes.js 3-137
GenerateStart ==
    /\ hpc = "request"
    /\ request.endpoint = "generate"
    /\ LET early == methodAndKeyChecks("Failed to generate recipes")
       IN  IF early = NoResponse
           THEN hpc' = "provider" /\ providerCalls' = providerCalls + 1 /\ UNCHANGED response
           ELSE hpc' = "done" /\ response' = early /\ UNCHANGED providerCalls
    /\ UNCHANGED <<nonHandlerVars, request, imageIndex, allIngredients, outcomes, fetched>>

\* generate-recipes.js 139-176
GenerateRespond ==
    /\ hpc = "provider"
    /\ \E outcome \in GenerationOutcomes :
        LET m == jsonMatch(outcome.text)
            parsedData == parseRecipesJSON(m.text)
            entries == parsedData.value.entries
        IN  /\ outcomes' = Append(outcomes, outcome)
            /\ response' =
                  IF outcome.kind = "ok" /\ m.found /\ parsedData.ok
                        /\ parsedData.value.t = "array"
                  THEN [NoResponse EXCEPT
                            !.statusCode = 200, !.headers = CorsHeaders, !.empty = FALSE,
                            !.recipes = [i \in 1..Len(entries) |->
                                            [id |-> i - 1, recipe |-> entries[i]]]]
                  ELSE errorResponse(500, "Failed to generate recipes")
    /\ hpc' = "done"
    /\ UNCHANGED <<nonHandlerVars, request, imageIndex, allIngredients, fetched,
                   providerCalls>>

NextHandler ==
    AnalyzeStart \/ AnalyzeImage \/ AnalyzeRespond \/ GenerateStart \/ GenerateRespond

SpecHandler == InitHandler /\ [][NextHandler]_vars

\* The request reached the image loop: a POST with a well-formed body and a key.
InImageLoop ==
    /\ request.endpoint = "analyze"
    /\ request.httpMethod = "POST"
    /\ request.body.kind = "ok"
    /\ request.apiKey

\* the ingredients parsed from the answer for the i-th visited image
ParsedFrom(i) == parsedIngredients[outcomes[i].text, request.body.dietaryRestrictions]

\* C13: whichever images fail, every one of the first five images is visited
\* in order, the status is 200, and every ingredient parsed from an image that
\* did not fail is in the returned list, itself or as a duplicate-group member.
C13_ImageFailureNonFatal ==
    (hpc = "done" /\ InImageLoop) =>
        /\ response.statusCode = 200
        /\ fetched = slice(request.body.imageUrls, 5)
        /\ Len(outcomes) = Len(fetched)
        /\ \A i \in 1..Len(outcomes) :
              outcomes[i].kind = "ok" =>
                  \A k \in 1..Len(ParsedFrom(i)) :
                      \E y \in Range(response.ingredients) :
                          SameIngredient(ParsedFrom(i)[k], y)

\* Two failing images followed by one that yields avocados.
C13_Witness ==
    /\ hpc = "done"
    /\ InImageLoop
    /\ Len(outcomes) = 3
    /\ outcomes[1].kind = "fetchFailed"
    /\ outcomes[2].kind = "threw"
    /\ outcomes[3].kind = "ok"
    /\ "avocados" \in Range(response.ingredients)
    /\ response.statusCode = 200

\* C14: at most five images are fetched and at most five provider calls are
\* made, and the fetched URLs are the first URLs of imageUrls.
C14_ImageCap ==
    request.endpoint = "analyze" =>
        /\ Len(fetched) <= 5
        /\ providerCalls <= 5
        /\ Len(fetched) <= Len(request.body.imageUrls)
        /\ fetched = SubSeq(request.body.imageUrls, 1, Len(fetched))
        /\ Len(outcomes) = Len(fetched)

\* A request with more than five URLs is answered after five fetches.
C14_Witness ==
    /\ hpc = "done"
    /\ InImageLoop
    /\ Len(request.body.imageUrls) > 5
    /\ Len(fetched) = 5
    /\ providerCalls = 5
    /\ response.statusCode = 200

\* C15: when no image yields an ingredient, the returned ingredient list is empty.
C15_WorstCaseEmpty ==
    (hpc = "done" /\ InImageLoop /\ allIngredients = <<>>) => response.ingredients = <<>>

\* C16: a POST with a well-formed body and no API key is answered with status
\* 500 and an error, without any image fetch or provider call.
C16_MissingKey ==
    (request.httpMethod = "POST" /\ request.body.kind = "ok" /\ ~request.apiKey) =>
        /\ fetched = <<>>
        /\ providerCalls = 0
        /\ hpc \in {"request", "done"}
        /\ hpc = "done" => (/\ response.statusCode = 500
                            /\ ~response.empty
                            /\ response.error # "")

\* An analysis request with images and no key is answered with 500.
C16_Witness ==
    /\ hpc = "done"
    /\ request.endpoint = "analyze"
    /\ request.httpMethod = "POST"
    /\ request.body.kind = "ok"
    /\ Len(request.body.imageUrls) > 0
    /\ ~request.apiKey
    /\ response.statusCode = 500
    /\ response.error = "Claude API key not configured"

\* C17: OPTIONS gets 200 with an empty body, every method other than POST and
\* OPTIONS gets 405 with an error, both whatever the body is and without any
\* fetch; every response carries the CORS headers.
C17_Methods ==
    /\ hpc = "done" => response.headers = CorsHeaders
    /\ request.httpMethod # "POST" =>
        /\ fetched = <<>>
        /\ providerCalls = 0
        /\ hpc \in {"request", "done"}
        /\ hpc = "done" =>
              IF request.httpMethod = "OPTIONS"
              THEN response.statusCode = 200 /\ response.empty /\ response.error = ""
              ELSE /\ response.statusCode = 405
                   /\ ~response.empty
                   /\ response.error = "Method not allowed"

\* A GET whose body is no JSON is answered with 405.
C17_Witness ==
    /\ hpc = "done"
    /\ request.httpMethod = "GET"
    /\ request.body.kind = "malformed"
    /\ response.statusCode = 405
    /\ response.headers = CorsHeaders

\* the orders in which the elements of a list can appear
Reordered(list) ==
    {[i \in 1..Len(list) |-> list[p[i]]] :
        p \in {q \in [1..Len(list) -> 1..Len(list)] :
                  \A i, j \in 1..Len(list) : q[i] = q[j] => i = j}}

\* allIngredients after the loop has seen these outcomes in this order
RECURSIVE collected(_, _, _)
collected(seen, results, restrictions) ==
    IF results = <<>> THEN seen
    ELSE collected(IF Head(results).kind = "ok"
                   THEN addAll(seen, parsedIngredients[Head(results).text, restrictions])
                   ELSE seen,
                   Tail(results), restrictions)

\* C21: for a request of at most five images, the returned list is the one
\* the handler returns for every other order of the same images and answers.
C21_OrderInsignificant ==
    (/\ hpc = "done"
     /\ InImageLoop
     /\ Len(request.body.imageUrls) <= 5)
    => \A other \in Reordered(outcomes) :
          finalResult(collected(<<>>, other, request.body.dietaryRestrictions))
              = response.ingredients

\* two different strings of one group of deduplicateIngredients
NearDuplicates(x, y) ==
    x # y /\ \E group \in duplicateGroups : x \in group /\ y \in group

\* C30: the list of a 200 answer is sorted ascending, holds no string twice
\* and holds at most one member of each duplicate group.
C30_NoNearDuplicates ==
    (hpc = "done" /\ InImageLoop)
    => LET list == response.ingredients
       IN  /\ \A i \in 1..(Len(list) - 1) : sortsBefore(list[i], list[i + 1])
           /\ \A i, j \in 1..Len(list) :
                 i # j => list[i] # list[j] /\ ~NearDuplicates(list[i], list[j])

(***************************************************************************)
(* The dietary rules of the generation prompt (generate-recipes.js 40-71). *)
(***************************************************************************)
\* the rule block the prompt includes, "" when it includes none
dietaryRules(dietary_preferences) ==
    LET dietaryRestrictions == IF dietary_preferences = "" THEN "none"
                               ELSE dietary_preferences
        restrictions == toLowerCase(dietaryRestrictions)
    IN  IF dietaryRestrictions = "none" THEN ""
        ELSE IF includes(restrictions, "vegetarian") THEN "VEGETARIAN"
        ELSE IF includes(restrictions, "vegan") THEN "VEGAN"
        ELSE IF includes(restrictions, "gluten-free") THEN "GLUTEN-FREE"
        ELSE ""

PreferenceFragments == {"vegan", "Vegetarian", "gluten-free", ", ", "none", "keto"}

PromptInputs ==
    [kind : {"rules"},
     dietary_preferences : Concats(PreferenceFragments, MaxPreferenceFragments)]

InitPrompt ==
    /\ fn = "none"
    /\ args \in PromptInputs
    /\ ret = <<>>
    /\ idleDiscovery
    /\ idleHandler
    /\ idleUpload
    /\ idleUsage

DietaryRules ==
    /\ fn = "none"
    /\ args.kind = "rules"
    /\ fn' = "dietaryRules"
    /\ ret' = dietaryRules(args.dietary_preferences)
    /\ UNCHANGED <<args, nonPureVars>>

NextPrompt == DietaryRules

SpecPrompt == InitPrompt /\ [][NextPrompt]_vars

\* the restrictions isValidIngredient applies for a preference string: each
\* is told by an ingredient that only its list blocks
AppliedByValidator(dietaryRestrictions) ==
    {block \in {"VEGAN", "VEGETARIAN", "GLUTEN-FREE"} :
        LET probe == CASE block = "VEGAN" -> "honey"
                       [] block = "VEGETARIAN" -> "ham"
                       [] block = "GLUTEN-FREE" -> "bread"
        IN  ~isValidIngredient(probe, dietaryRestrictions)}

\* C29: every restriction the validator applies for a preference string has
\* its rule block in the prompt.
C29_PromptCoversValidator ==
    fn = "dietaryRules" =>
        \A block \in AppliedByValidator(args.dietary_preferences) : ret = block

(***************************************************************************)
(* ImageUpload.tsx: the uploaded images of a signed-in user.  An image is  *)
(* the number in its URL.  The uploads of one selection are one step.      *)
(***************************************************************************)
maxImages == 10

\* Array.prototype.slice(0, end) on an array of n elements: its length
sliceLength(n, end) ==
    IF end >= n THEN n
    ELSE IF end >= 0 THEN end
    ELSE IF n + end > 0 THEN n + end ELSE 0

\* the URLs first, first + 1, ..., first + n - 1
urlsFrom(first, n) == [i \in 1..n |-> first + i - 1]

\* the elements of a set of numbers in ascending order
RECURSIVE ascending(_)
ascending(set) ==
    IF set = {} THEN <<>>
    ELSE LET least == CHOOSE x \in set : \A y \in set : x <= y
         IN  <<least>> \o ascending(set \ {least})

removeAt(array, index) == [i \in 1..(Len(array) - 1) |-> IF i < index THEN array[i]
                                                          ELSE array[i + 1]]

FileCounts == {1, MaxBatch}

InitUpload ==
    /\ idlePure
    /\ idleDiscovery
    /\ idleHandler
    /\ idleUsage
    /\ uploadedImages = <<>>
    /\ storedImages = {}
    /\ uploads = <<>>
    /\ nextImage = 1
    /\ selections = 0
    /\ removals = 0

\* handleFileSelect and handleDrop up to Promise.all (lines 155-176)
HandleFileSelect ==
    /\ selections < MaxSelections
    /\ selections' = selections + 1
    /\ \E files \in FileCounts :
        LET remainingSlots == maxImages - Len(uploadedImages)
            filesToUpload == sliceLength(files, remainingSlots)
        IN  /\ nextImage' = nextImage + filesToUpload
            /\ uploads' = IF filesToUpload = 0 THEN uploads
                          ELSE Append(uploads, [base |-> uploadedImages, first |-> nextImage,
                                                files |-> filesToUpload, result |-> "pending"])
    /\ UNCHANGED <<nonUploadVars, uploadedImages, storedImages, removals>>

\* uploadImage for every file of a call (lines 123-153): all are stored, or
\* the insert of the first record returns an error, or the upload of the
\* first file fails while the others are stored
UploadImages ==
    /\ \E c \in 1..Len(uploads), result \in {"stored", "noRecord", "failed"} :
        LET urls == {uploads[c].first + i : i \in 0..(uploads[c].files - 1)}
        IN  /\ uploads[c].result = "pending"
            /\ uploads' = [uploads EXCEPT ![c].result = result]
            /\ storedImages' = IF result = "stored" THEN storedImages \cup urls
                               ELSE storedImages \cup (urls \ {uploads[c].first})
    /\ UNCHANGED <<nonUploadVars, uploadedImages, nextImage, selections, removals>>

\* handleFileSelect after Promise.all (lines 176-193)
FinishFileSelect ==
    /\ \E c \in 1..Len(uploads) :
        /\ uploads[c].result # "pending"
        /\ uploadedImages' =
              IF uploads[c].result = "failed" THEN uploadedImages
              ELSE uploads[c].base \o urlsFrom(uploads[c].first, uploads[c].files)
        /\ uploads' = removeAt(uploads, c)
    /\ UNCHANGED <<nonUploadVars, storedImages, nextImage, selections, removals>>

\* removeImage (lines 214-234); the delete removes the record or returns an error
RemoveImage ==
    /\ removals < MaxRemovals
    /\ removals' = removals + 1
    /\ Len(uploadedImages) > 0
    /\ \E index \in {1, Len(uploadedImages)}, deleted \in BOOLEAN :
        /\ storedImages' = IF deleted THEN storedImages \ {uploadedImages[index]}
                           ELSE storedImages
        /\ uploadedImages' = removeAt(uploadedImages, index)
    /\ UNCHANGED <<nonUploadVars, uploads, nextImage, selections>>

\* loadExistingImages (lines 21-50), run at mount and whenever the
\* onImagesUploaded callback changes
LoadExistingImages ==
    /\ storedImages # {}
    /\ uploadedImages' = ascending(storedImages)
    /\ UNCHANGED <<nonUploadVars, storedImages, uploads, nextImage, selections, removals>>

NextUpload ==
    HandleFileSelect \/ UploadImages \/ FinishFileSelect \/ RemoveImage \/ LoadExistingImages

SpecUpload == InitUpload /\ [][NextUpload]_vars

\* C19: the component never holds more than maxImages images and the user
\* never has more than maxImages image records.
C19_UploadLimit ==
    /\ Len(uploadedImages) <= maxImages
    /\ Cardinality(storedImages) <= maxImages

(***************************************************************************)
(* Usage limits: UsageTrackingService and the calls generateRecipes makes  *)
(* to it (RecipeDiscovery.tsx 246-276), for a signed-in user within one    *)
(* 7-day window.  The usage store answers every read and write, and every  *)
(* record the window holds at the start was followed by its request.       *)
(***************************************************************************)
maxGenerationsPerWeek == 5

Tiers == {"", "basic", "premium"}

\* getUserUsageLimits: isBasicTier and remainingGenerations
getUserUsageLimits(tier, currentWeekUsage) ==
    IF tier # "" /\ tier # "basic"
    THEN [isBasicTier |-> FALSE, remainingGenerations |-> 999]
    ELSE [isBasicTier |-> TRUE,
          remainingGenerations |->
              IF maxGenerationsPerWeek - currentWeekUsage > 0
              THEN maxGenerationsPerWeek - currentWeekUsage ELSE 0]

\* canGenerateRecipes: the canGenerate field
canGenerateRecipes(tier, currentWeekUsage) ==
    LET limits == getUserUsageLimits(tier, currentWeekUsage)
    IN  ~limits.isBasicTier \/ limits.remainingGenerations > 0

InitUsage ==
    /\ idlePure
    /\ idleDiscovery
    /\ idleHandler
    /\ idleUpload
    /\ \E tier \in Tiers, n \in 0..maxGenerationsPerWeek :
          usage = [tier |-> tier, records |-> n, sent |-> n]
    /\ generateCalls = [c \in 1..MaxGenerateCalls |-> "idle"]

\* generateRecipes is called with a non-empty list (lines 233-246)
StartGenerate ==
    /\ \E c \in 1..MaxGenerateCalls :
        /\ generateCalls[c] = "idle"
        /\ generateCalls' = [generateCalls EXCEPT ![c] = "check"]
    /\ UNCHANGED <<nonUsageVars, usage>>

\* await canGenerateRecipes and the return of line 254 (lines 247-255)
CheckUsage ==
    /\ \E c \in 1..MaxGenerateCalls :
        /\ generateCalls[c] = "check"
        /\ generateCalls' =
              [generateCalls EXCEPT ![c] = IF canGenerateRecipes(usage.tier, usage.records)
                                           THEN "track" ELSE "refused"]
    /\ UNCHANGED <<nonUsageVars, usage>>

\* await trackRecipeGeneration (line 258)
TrackRecipeGeneration ==
    /\ \E c \in 1..MaxGenerateCalls :
        /\ generateCalls[c] = "track"
        /\ generateCalls' = [generateCalls EXCEPT ![c] = "fetch"]
    /\ usage' = [usage EXCEPT !.records = @ + 1]
    /\ UNCHANGED nonUsageVars

\* the POST to /api/generate-recipes (lines 266-272)
SendGenerateRequest ==
    /\ \E c \in 1..MaxGenerateCalls :
        /\ generateCalls[c] = "fetch"
        /\ generateCalls' = [generateCalls EXCEPT ![c] = "sent"]
    /\ usage' = [usage EXCEPT !.sent = @ + 1]
    /\ UNCHANGED nonUsageVars

NextUsage == StartGenerate \/ CheckUsage \/ TrackRecipeGeneration \/ SendGenerateRequest

SpecUsage == InitUsage /\ [][NextUsage]_vars

\* C27: a basic-tier user never has more than maxGenerationsPerWeek usage
\* records in the window, and no more requests are sent than the limit allows.
C27_WeeklyLimit ==
    (usage.tier = "" \/ usage.tier = "basic") =>
        /\ usage.records <= maxGenerationsPerWeek
        /\ usage.sent <= maxGenerationsPerWeek

====
